---- MODULE Spec2Model ----
(***************************************************************************)
(* PBR texture coverage matching engine of the MO2 plugin collection       *)
(* (projects/pbr-coverage-checker): TextureUtils, PBRScanner,              *)
(* TextureScanner and CoverageAnalyzer, driven the way                     *)
(* PBRCoverageChecker.display drives them.                                 *)
(*                                                                         *)
(* Python str values are TLA+ strings; a character is a string of length   *)
(* one, read with SubSeq(s, i, i).                                         *)
(***************************************************************************)
EXTENDS Integers, Sequences, FiniteSets, TLC

(***************************************************************************)
(* Python str primitives                                                   *)
(***************************************************************************)

\* s[i] (1-based)
CharAt(s, i) == SubSeq(s, i, i)

\* s.endswith(suffix)
endswith(s, suffix) ==
    /\ Len(suffix) <= Len(s)
    /\ SubSeq(s, Len(s) - Len(suffix) + 1, Len(s)) = suffix

\* s.startswith(prefix)
startswith(s, prefix) ==
    /\ Len(prefix) <= Len(s)
    /\ SubSeq(s, 1, Len(prefix)) = prefix

\* `sub in s`
contains(s, sub) ==
    \E i \in 1..(Len(s) - Len(sub) + 1) : SubSeq(s, i, i + Len(sub) - 1) = sub

\* s.replace(old, new) for a one-character old
RECURSIVE replace(_, _, _)
replace(s, old, new) ==
    IF s = "" THEN ""
    ELSE (IF CharAt(s, 1) = old THEN new ELSE CharAt(s, 1))
             \o replace(SubSeq(s, 2, Len(s)), old, new)

\* s.split(sep) for a one-character sep: a sequence of strings
RECURSIVE split(_, _)
split(s, sep) ==
    IF \A i \in 1..Len(s) : CharAt(s, i) # sep
    THEN <<s>>
    ELSE LET i == CHOOSE k \in 1..Len(s) :
                      /\ CharAt(s, k) = sep
                      /\ \A j \in 1..(k - 1) : CharAt(s, j) # sep
         IN  <<SubSeq(s, 1, i - 1)>> \o split(SubSeq(s, i + 1, Len(s)), sep)

\* sep.join(parts)
RECURSIVE join(_, _)
join(parts, sep) ==
    IF Len(parts) = 0 THEN ""
    ELSE IF Len(parts) = 1 THEN parts[1]
    ELSE parts[1] \o sep \o join(Tail(parts), sep)

UpperCase ==
    << "A", "B", "C", "D", "E", "F", "G", "H", "I", "J", "K", "L", "M", "N", "O",
       "P", "Q", "R", "S", "T", "U", "V", "W", "X", "Y", "Z", "É" >>
LowerCase ==
    << "a", "b", "c", "d", "e", "f", "g", "h", "i", "j", "k", "l", "m", "n", "o",
       "p", "q", "r", "s", "t", "u", "v", "w", "x", "y", "z", "é" >>

\* c.lower() for one character
lower_char(c) ==
    IF \E i \in 1..Len(UpperCase) : UpperCase[i] = c
    THEN LowerCase[CHOOSE i \in 1..Len(UpperCase) : UpperCase[i] = c]
    ELSE c

\* s.lower()
RECURSIVE lower(_)
lower(s) ==
    IF s = "" THEN "" ELSE lower_char(CharAt(s, 1)) \o lower(SubSeq(s, 2, Len(s)))

NonAscii == {"é", "É"}

\* s.encode('ascii') succeeds
is_ascii(s) == \A i \in 1..Len(s) : CharAt(s, i) \notin NonAscii

Digits == {"0", "1", "2", "3", "4", "5", "6", "7", "8", "9"}

\* s.isdigit()
isdigit(s) == Len(s) > 0 /\ \A i \in 1..Len(s) : CharAt(s, i) \in Digits

(***************************************************************************)
(* pathlib.Path on a path string                                           *)
(***************************************************************************)

\* Path(p).parts: the components, without empty and "." components
PathParts(p) ==
    LET IsPart(c) == c # "" /\ c # "." IN SelectSeq(split(replace(p, "\\", "/"), "/"), IsPart)

\* the last of the parts, '' when there is none
LastPart(parts) == IF Len(parts) = 0 THEN "" ELSE parts[Len(parts)]

\* Path(p).name
PathName(p) == LastPart(PathParts(p))

\* name.rfind('.') as a 1-based index, 0 when there is no dot
RDot(name) ==
    IF \A i \in 1..Len(name) : CharAt(name, i) # "." THEN 0
    ELSE CHOOSE i \in 1..Len(name) :
             /\ CharAt(name, i) = "."
             /\ \A j \in (i + 1)..Len(name) : CharAt(name, j) # "."

\* the name up to its last dot at index i, unless that dot is the first or
\* the last character, or there is none
StemAt(name, i) == IF 1 < i /\ i < Len(name) THEN SubSeq(name, 1, i - 1) ELSE name

StemOfName(name) == StemAt(name, RDot(name))

\* Path(p).stem
PathStem(p) == StemOfName(PathName(p))

\* the parts but the last joined with '/', '.' when there is at most one
ParentOfParts(parts) ==
    IF Len(parts) <= 1 THEN "." ELSE join(SubSeq(parts, 1, Len(parts) - 1), "/")

\* str(Path(p).parent).replace('\\', '/')
PathParent(p) == ParentOfParts(PathParts(p))

(***************************************************************************)
(* TextureUtils                                                            *)
(***************************************************************************)

\* the table with 'mask' moved in front of '_envmask'
pbr_suffixes_mask_first ==
    << "mask", "_envmask", "_rmaos", "_flow", "_cnr", "_msn", "_em", "_bl", "_sk",
       "_b", "_d", "_e", "_f", "_g", "_i", "_m", "_n", "_p", "_s",
       "_normalmap", "_envmap", "_spec", "_emit", "_nm" >>

pbr_suffixes ==
    << "_envmask", "_rmaos", "_flow", "_cnr", "_msn", "_em", "_bl", "_sk",
       "_b", "_d", "_e", "_f", "_g", "_i", "_m", "_n", "_p", "_s", "mask",
       "_normalmap", "_envmap", "_spec", "_emit", "_nm" >>

\* normalize_path without the `if part` filter
normalize_path_keeps_empty_parts(path_str) ==
    IF path_str = "" THEN ""
    ELSE join(split(replace(path_str, "\\", "/"), "/"), "/")

normalize_path(path_str) ==
    IF path_str = "" THEN ""
    ELSE LET NonEmpty(part) == part # ""
         IN  join(SelectSeq(split(replace(path_str, "\\", "/"), "/"), NonEmpty), "/")

RECURSIVE strip_suffix(_, _)

\* the loop without its break: what is left is searched for a suffix again
strip_suffix_repeats(stem, i) ==
    IF i > Len(pbr_suffixes) THEN stem
    ELSE IF endswith(stem, pbr_suffixes[i])
         THEN strip_suffix(SubSeq(stem, 1, Len(stem) - Len(pbr_suffixes[i])), 1)
         ELSE strip_suffix(stem, i + 1)

\* the for/else loop over the suffix table, from table index i on
strip_suffix(stem, i) ==
    IF i > Len(pbr_suffixes) THEN stem
    ELSE IF endswith(stem, pbr_suffixes[i])
         THEN SubSeq(stem, 1, Len(stem) - Len(pbr_suffixes[i]))
         ELSE strip_suffix(stem, i + 1)

\* lines 74-78: reconstruct the path
reconstruct(directory, base_stem) ==
    IF directory = "." THEN base_stem \o ".dds"
    ELSE directory \o "/" \o base_stem \o ".dds"

\* lines 61-78 on the normalized path
base_of_normalized(normalized_path) ==
    reconstruct(PathParent(normalized_path), strip_suffix(PathStem(normalized_path), 1))

get_base_texture_name(texture_path) == base_of_normalized(normalize_path(texture_path))

(***************************************************************************)
(* Python containers                                                       *)
(***************************************************************************)

\* d[k] = {m} in place of d[k].add(m)
DictAdd_overwrites(d, k, m) ==
    IF k \in DOMAIN d THEN [d EXCEPT ![k] = {m}] ELSE d @@ (k :> {m})

\* d[k].add(m) on a defaultdict(set) whose key order is never read
DictAdd(d, k, m) ==
    IF k \in DOMAIN d THEN [d EXCEPT ![k] = @ \cup {m}] ELSE d @@ (k :> {m})

\* an insertion-ordered dict is a sequence of <<key, value>> pairs
Keys(items) == {items[i][1] : i \in 1..Len(items)}

Get(items, k) == items[CHOOSE i \in 1..Len(items) : items[i][1] = k][2]

\* d[k] = {m} in place of d[k].add(m), on the items
OrderedAdd_overwrites(items, k, m) ==
    IF k \in Keys(items)
    THEN [i \in 1..Len(items) |->
             IF items[i][1] = k THEN <<k, {m}>> ELSE items[i]]
    ELSE Append(items, <<k, {m}>>)

\* d.setdefault(k, {m}) in place of d[k].add(m), on the items
OrderedAdd_keeps_first(items, k, m) ==
    IF k \in Keys(items) THEN items ELSE Append(items, <<k, {m}>>)

\* d[k].add(m) on a defaultdict(set) whose items are iterated later
OrderedAdd(items, k, m) ==
    IF k \in Keys(items)
    THEN [i \in 1..Len(items) |->
             IF items[i][1] = k THEN <<k, items[i][2] \cup {m}>> ELSE items[i]]
    ELSE Append(items, <<k, {m}>>)

\* the dict as an unordered mapping
AsMap(items) == [k \in Keys(items) |-> Get(items, k)]

(***************************************************************************)
(* JSON values as json.load returns them                                   *)
(***************************************************************************)

JStr(s) == [type |-> "str", s |-> s, items |-> <<>>]
JNum(n) == [type |-> "num", s |-> ToString(n), items |-> <<>>]
JNull == [type |-> "null", s |-> "", items |-> <<>>]
JList(xs) == [type |-> "list", s |-> "", items |-> xs]
\* pairs: a sequence of <<key string, JSON value>> with distinct keys
JDict(pairs) == [type |-> "dict", s |-> "", items |-> pairs]

\* bool(v)
truthy(v) ==
    CASE v.type = "str" -> v.s # ""
      [] v.type = "num" -> v.s # "0"
      [] v.type = "null" -> FALSE
      [] OTHER -> Len(v.items) > 0

\* {**entry, **defaults}: the defaults win
merge_defaults_win(defaults, entry) ==
    [i \in 1..Len(entry) |->
        IF entry[i][1] \in Keys(defaults)
        THEN <<entry[i][1], Get(defaults, entry[i][1])>>
        ELSE entry[i]]
    \o LET IsNew(kv) == kv[1] \notin Keys(entry) IN SelectSeq(defaults, IsNew)

\* {**defaults, **entry} on the items of two dicts
merge(defaults, entry) ==
    [i \in 1..Len(defaults) |->
        IF defaults[i][1] \in Keys(entry)
        THEN <<defaults[i][1], Get(entry, defaults[i][1])>>
        ELSE defaults[i]]
    \o LET IsNew(kv) == kv[1] \notin Keys(defaults) IN SelectSeq(entry, IsNew)

\* the values `for entry in v` yields; meaningful when v is iterable
iterate(v) ==
    CASE v.type = "list" -> v.items
      [] v.type = "dict" -> [i \in 1..Len(v.items) |-> JStr(v.items[i][1])]
      [] v.type = "str" -> [i \in 1..Len(v.s) |-> JStr(CharAt(v.s, i))]
      [] OTHER -> <<>>

(***************************************************************************)
(* The disk.  A mod folder is a record                                     *)
(*   patcher  : the PBRNifPatcher subfolder exists                         *)
(*   jsons    : its *.json files in rglob order, each a record             *)
(*                path  : path relative to PBRNifPatcher                   *)
(*                valid : json.load succeeds                               *)
(*                data  : the value json.load returns                      *)
(*   textures : the textures subfolder exists                              *)
(*   dds      : its *.dds files in rglob order, paths relative to textures *)
(***************************************************************************)

(***************************************************************************)
(* PBRScanner                                                              *)
(***************************************************************************)

excluded_patterns ==
    << "cameras", "dyndolod", "lod", "markers", "facetint", "skintint",
       "landscape", "grass", "meta.ini", "cc", "_resourcepack" >>

\* any(pattern in s for pattern in self.excluded_patterns)
is_excluded_dir(s) ==
    \E i \in 1..Len(excluded_patterns) : contains(s, excluded_patterns[i])

\* debug_info.append(line) when the counter is still within its limit
LogIf(debug, cond, line) == IF cond THEN Append(debug, line) ELSE debug

\* the files rglob(texture_name + ".dds") yields under textures/PBR, as paths
\* relative to textures/ (file names match case-insensitively, as on the
\* Windows file systems Mod Organizer runs on)
pbr_folder_matches(folder, texture_name) ==
    LET IsMatch(p) ==
            /\ Len(PathParts(p)) >= 2
            /\ lower(PathParts(p)[1]) = "pbr"
            /\ lower(PathName(p)) = lower(texture_name \o ".dds")
    IN  IF folder.textures THEN SelectSeq(folder.dds, IsMatch) ELSE <<>>

\* The scan state st is [cov, debug, json_count, excluded_count, err]: the
\* coverage map, the debug lines, the two counters and the exception raised
\* ("" for none).  The file context f is [mod_name, folder, json_name,
\* texture_dir, is_excluded, defaults].  The outcome of the texture /
\* match_diffuse reference of an entry is [st, has_base, base, skip]:
\* has_base is `base_texture_path is not None`, skip is the `continue` of
\* the non-ASCII branch.

NoReference(st) == [st |-> st, has_base |-> FALSE, base |-> "", skip |-> FALSE]

\* lines 136-148: the reference is recorded, or counted as excluded
record_reference(st, f, texture_path, base_texture_path) ==
    IF f.is_excluded
    THEN [st |-> [st EXCEPT
                !.excluded_count = @ + 1,
                !.debug = LogIf(@, st.excluded_count + 1 <= 3,
                            <<"Excluded (PG Patcher skip)", texture_path>>)],
          has_base |-> TRUE, base |-> base_texture_path, skip |-> FALSE]
    ELSE [st |-> [st EXCEPT
                !.cov = DictAdd(@, base_texture_path, f.mod_name),
                !.json_count = @ + 1,
                !.debug = LogIf(@, st.json_count + 1 <= 5,
                            <<"PBR Coverage", f.json_name, texture_path,
                              base_texture_path>>)],
          has_base |-> TRUE, base |-> base_texture_path, skip |-> FALSE]

\* lines 127-148: the non-ASCII test on the normalized full path
check_reference(st, f, texture_path) ==
    IF ~is_ascii(texture_path)
    THEN [st |-> [st EXCEPT
                !.excluded_count = @ + 1,
                !.debug = LogIf(@, st.excluded_count + 1 <= 3,
                            <<"Excluded (non-ASCII chars)", texture_path>>)],
          has_base |-> FALSE, base |-> "", skip |-> TRUE]
    ELSE record_reference(st, f, texture_path,
                          lower(get_base_texture_name(texture_path)))

\* lines 101-122: the full texture path of the normalized reference; found
\* are the files of the root-level fallback search
locate_reference(f, texture_name, found) ==
    IF /\ ~contains(texture_name, "/") /\ ~contains(texture_name, "\\")
       /\ f.texture_dir = "."
       /\ Len(found) > 0
    THEN found[1]
    ELSE IF f.texture_dir = "." THEN texture_name \o ".dds"
    ELSE f.texture_dir \o "/" \o texture_name \o ".dds"

\* lines 99-148 on the normalized reference
named_reference(st, f, texture_name) ==
    check_reference(st, f,
        normalize_path(locate_reference(f, texture_name,
                                        pbr_folder_matches(f.folder, texture_name))))

\* lines 97-148: `if texture_name:` on the value of the preferred field
given_reference(st, f, texture_name) ==
    IF ~truthy(texture_name) THEN NoReference(st)
    ELSE IF texture_name.type # "str"
    THEN NoReference([st EXCEPT !.err = "AttributeError"])
    ELSE named_reference(st, f, normalize_path(texture_name.s))

\* lines 89-148: the texture / match_diffuse reference of a merged entry
main_reference(st, merged, f) ==
    given_reference(st, f,
        IF "match_diffuse" \in Keys(merged) THEN Get(merged, "match_diffuse")
        ELSE IF "texture" \in Keys(merged) THEN Get(merged, "texture")
        ELSE JNull)

\* lines 155-159: the value without a leading textures/ or textures\
strip_textures_prefix(slot_texture_path, lowered) ==
    IF startswith(lowered, "textures/") \/ startswith(lowered, "textures\\")
    THEN SubSeq(slot_texture_path, 10, Len(slot_texture_path))
    ELSE slot_texture_path

\* lines 166-172: the slot reference is recorded unless it repeats the
\* entry's own base texture
record_slot(st, key, main, f, slot_texture_path, base_slot_path) ==
    IF ~main.has_base \/ base_slot_path # main.base
    THEN [st EXCEPT
            !.cov = DictAdd(@, base_slot_path, f.mod_name),
            !.json_count = @ + 1,
            !.debug = LogIf(@, st.json_count + 1 <= 5,
                        <<"PBR Coverage (slot)", key, f.json_name,
                          slot_texture_path, base_slot_path>>)]
    ELSE st

\* lines 161-172 on the normalized slot path
normalized_slot(st, key, main, f, slot_texture_path) ==
    record_slot(st, key, main, f, slot_texture_path,
                lower(get_base_texture_name(slot_texture_path)))

\* lines 152-172: the body of `for key in merged_entry`
slot_reference(st, key, value, main, f) ==
    IF ~(startswith(key, "slot") /\ isdigit(SubSeq(key, 5, Len(key)))) \/ ~truthy(value)
    THEN st
    ELSE IF value.type # "str" THEN [st EXCEPT !.err = "AttributeError"]
    ELSE normalized_slot(st, key, main, f,
                         normalize_path(strip_textures_prefix(value.s, lower(value.s))))

\* lines 150-172: `for key in merged_entry`, from key index i on, left at
\* the first exception
RECURSIVE slot_references(_, _, _, _, _)
slot_references(st, merged, i, main, f) ==
    IF i > Len(merged) \/ st.err # "" THEN st
    ELSE slot_references(slot_reference(st, merged[i][1], merged[i][2], main, f),
                         merged, i + 1, main, f)

\* lines 89-172 after the merge: the reference, then the slots unless the
\* reference raised or hit `continue`
merged_entry(main, merged, f) ==
    IF main.st.err # "" \/ main.skip THEN main.st
    ELSE slot_references(main.st, merged, 1, main, f)

\* lines 85-172: the body of `for entry in entries`
process_entry(st, entry, f) ==
    IF f.defaults.type # "dict" \/ entry.type # "dict"
    THEN [st EXCEPT !.err = "TypeError"]
    ELSE merged_entry(main_reference(st, merge(f.defaults.items, entry.items), f),
                      merge(f.defaults.items, entry.items), f)

\* `for entry in entries`, left at the first exception
RECURSIVE process_entries(_, _, _, _)
process_entries(st, entries, i, f) ==
    IF i > Len(entries) \/ st.err # "" THEN st
    ELSE process_entries(process_entry(st, entries[i], f), entries, i + 1, f)

\* lines 60-65 and 69-77: the context of one json file
file_context(file, mod_name, folder, texture_dir) ==
    [mod_name |-> mod_name, folder |-> folder,
     json_name |-> PathName(file.path),
     texture_dir |-> texture_dir,
     is_excluded |-> is_excluded_dir(lower(texture_dir)),
     defaults |-> IF file.data.type = "dict" /\ "default" \in Keys(file.data.items)
                  THEN Get(file.data.items, "default") ELSE JDict(<<>>)]

\* lines 68-82: the entries of the parsed data, as the JSON value iterated
file_entries(data) ==
    IF data.type = "list" THEN data
    ELSE IF data.type = "dict"
    THEN (IF "entries" \in Keys(data.items) THEN Get(data.items, "entries")
          ELSE JList(<<data>>))
    ELSE JList(<<>>)

\* lines 51-172: the try body for one json file
try_file(st, file, entries, f) ==
    IF ~file.valid THEN [st EXCEPT !.err = "JSONDecodeError"]
    ELSE IF entries.type \in {"num", "null"} THEN [st EXCEPT !.err = "TypeError"]
    ELSE process_entries(st, iterate(entries), 1, f)

\* the except clause without leaving the failed state behind: the error
\* stays raised for the files that follow
except_file_keeps_error(tried, file) ==
    IF tried.err = "" THEN tried
    ELSE [tried EXCEPT
            !.debug = Append(@, <<"Error reading", file.path, tried.err>>)]

\* lines 174-175: the except clause
except_file(tried, file) ==
    IF tried.err = "" THEN tried
    ELSE [tried EXCEPT
            !.debug = Append(@, <<"Error reading", file.path, tried.err>>),
            !.err = ""]

\* lines 51-175: the try/except for one json file
process_file(st, file, mod_name, folder) ==
    except_file(try_file(st, file, file_entries(file.data),
                         file_context(file, mod_name, folder, PathParent(file.path))),
                file)

\* `for json_file in pbr_patcher_path.rglob("*.json")`
RECURSIVE scan_files(_, _, _, _, _)
scan_files(st, files, i, mod_name, folder) ==
    IF i > Len(files) THEN st
    ELSE scan_files(process_file(st, files[i], mod_name, folder), files, i + 1,
                    mod_name, folder)

\* lines 177-178: the summary line and the two arguments as the scan left
\* them
pbr_scan_result(mod_name, st) ==
    [pbr_covered_textures |-> st.cov,
     debug_info |->
        LogIf(st.debug, st.json_count > 0 \/ st.excluded_count > 0,
              <<"Found PBR coverage entries", mod_name,
                ToString(st.json_count), ToString(st.excluded_count)>>)]

\* scan_pbr_coverage without the return of lines 43-44
scan_pbr_coverage_unguarded(mod_name, folder, cov, debug) ==
    pbr_scan_result(mod_name,
        scan_files([cov |-> cov,
                    debug |-> Append(debug, <<"Found PBRNifPatcher folder in", mod_name>>),
                    json_count |-> 0, excluded_count |-> 0, err |-> ""],
                   folder.jsons, 1, mod_name, folder))

\* PBRScanner.scan_pbr_coverage; mod_path is given as the folder it names
scan_pbr_coverage(mod_name, folder, cov, debug) ==
    IF ~folder.patcher
    THEN [pbr_covered_textures |-> cov, debug_info |-> debug]
    ELSE pbr_scan_result(mod_name,
            scan_files([cov |-> cov,
                        debug |-> Append(debug, <<"Found PBRNifPatcher folder in", mod_name>>),
                        json_count |-> 0, excluded_count |-> 0, err |-> ""],
                       folder.jsons, 1, mod_name, folder))

(***************************************************************************)
(* TextureScanner                                                          *)
(***************************************************************************)

texture_scanner_excluded_patterns ==
    << "cameras", "dyndolod", "lod", "markers", "facetint", "skintint",
       "landscape", "grass", "meta.ini", "cc", "_resourcepack" >>

variant_suffixes == << "_n", "_m", "_s", "_g", "_p", "_e" >>

\* a scan that looks for the exclusion patterns in the directory only
scan_dds_path_directory_only(st, dds_file, mod_name, path_str) ==
    IF ~is_ascii(path_str) THEN [st EXCEPT !.excluded_count = @ + 1]
    ELSE IF startswith(path_str, "pbr/") \/ contains(path_str, "/pbr/") THEN st
    ELSE IF \E k \in 1..Len(variant_suffixes) :
                endswith(PathStem(dds_file), variant_suffixes[k])
    THEN st
    ELSE IF \E k \in 1..Len(texture_scanner_excluded_patterns) :
                contains(PathParent(path_str), texture_scanner_excluded_patterns[k])
    THEN [st EXCEPT !.excluded_count = @ + 1]
    ELSE [st EXCEPT
            !.reg = OrderedAdd(@, lower(get_base_texture_name(path_str)), mod_name),
            !.found = @ \cup {lower(get_base_texture_name(path_str))}]

\* lines 57-78 on the normalized lower-cased path; st is [reg, found,
\* excluded_count, total] with total already counted
scan_dds_path(st, dds_file, mod_name, path_str) ==
    IF ~is_ascii(path_str) THEN [st EXCEPT !.excluded_count = @ + 1]
    ELSE IF startswith(path_str, "pbr/") \/ contains(path_str, "/pbr/") THEN st
    ELSE IF \E k \in 1..Len(variant_suffixes) :
                endswith(PathStem(dds_file), variant_suffixes[k])
    THEN st
    ELSE IF \E k \in 1..Len(texture_scanner_excluded_patterns) :
                contains(path_str, texture_scanner_excluded_patterns[k])
    THEN [st EXCEPT !.excluded_count = @ + 1]
    ELSE [st EXCEPT
            !.reg = OrderedAdd(@, lower(get_base_texture_name(path_str)), mod_name),
            !.found = @ \cup {lower(get_base_texture_name(path_str))}]

\* lines 50-78: the body of `for dds_file in textures_path.rglob("*.dds")`;
\* dds_file is the path of the file on disk, relative to textures
scan_dds_file(st, dds_file, mod_name) ==
    scan_dds_path([st EXCEPT !.total = @ + 1], dds_file, mod_name,
                  lower(normalize_path(replace(dds_file, "\\", "/"))))

RECURSIVE scan_dds_files(_, _, _, _)
scan_dds_files(st, files, i, mod_name) ==
    IF i > Len(files) THEN st
    ELSE scan_dds_files(scan_dds_file(st, files[i], mod_name), files, i + 1, mod_name)

\* lines 80-81: the summary line and the two arguments as the scan left them
regular_scan_result(mod_name, debug, st) ==
    [regular_textures |-> st.reg,
     debug_info |->
        LogIf(debug, st.found # {} \/ st.total > 0,
              <<"Found unique base textures", mod_name,
                ToString(Cardinality(st.found)), ToString(st.total),
                ToString(st.excluded_count)>>)]

\* TextureScanner.scan_regular_textures; mod_path is given as the folder
scan_regular_textures(mod_name, folder, regular, debug) ==
    IF ~folder.textures
    THEN [regular_textures |-> regular, debug_info |-> debug]
    ELSE regular_scan_result(mod_name, debug,
            scan_dds_files([reg |-> regular, found |-> {}, excluded_count |-> 0,
                            total |-> 0],
                           folder.dds, 1, mod_name))

(***************************************************************************)
(* CoverageAnalyzer                                                        *)
(***************************************************************************)

numbered_suffixes == << "_01", "_02", "_03", "_04", "_05" >>

\* lines 41-47 with base_name[:-2] in place of base_name[:-3]
numbered_fallback_strips_two(base_name, texture_dir) ==
    IF \E k \in 1..Len(numbered_suffixes) : endswith(base_name, numbered_suffixes[k])
    THEN reconstruct(texture_dir, SubSeq(base_name, 1, Len(base_name) - 2))
    ELSE ""

\* lines 41-47: the fallback path of a stem in a directory; "" when the
\* stem ends with none of the numbered suffixes
numbered_fallback(base_name, texture_dir) ==
    IF \E k \in 1..Len(numbered_suffixes) : endswith(base_name, numbered_suffixes[k])
    THEN reconstruct(texture_dir, SubSeq(base_name, 1, Len(base_name) - 3))
    ELSE ""

\* lines 38-47: the fallback path of a regular identity
fallback_path(base_texture_path) ==
    numbered_fallback(PathStem(base_texture_path), PathParent(base_texture_path))

\* match_paths that tries the numbered-variant entry before the direct one
match_paths_fallback_first(pbr, base_texture_path, fallback) ==
    IF fallback # "" /\ fallback \in DOMAIN pbr
    THEN [how |-> "Numbered variant match", mods |-> pbr[fallback],
          pbr_covered_textures |-> pbr]
    ELSE IF base_texture_path \in DOMAIN pbr
    THEN [how |-> "Direct match", mods |-> pbr[base_texture_path],
          pbr_covered_textures |-> pbr]
    ELSE [how |-> "NO MATCH", mods |-> {}, pbr_covered_textures |-> pbr]

\* match_paths that reads pbr_covered_textures[fallback_path] without the
\* `in` test before it, which makes the defaultdict insert the key
match_paths_inserts(pbr, base_texture_path, fallback) ==
    IF base_texture_path \in DOMAIN pbr
    THEN [how |-> "Direct match", mods |-> pbr[base_texture_path],
          pbr_covered_textures |-> pbr]
    ELSE IF fallback # "" /\ fallback \in DOMAIN pbr
    THEN [how |-> "Numbered variant match", mods |-> pbr[fallback],
          pbr_covered_textures |-> pbr]
    ELSE [how |-> "NO MATCH", mods |-> {},
          pbr_covered_textures |->
              IF fallback # "" THEN pbr @@ (fallback :> {}) ELSE pbr]

\* lines 29-55: the direct lookup, then the lookup of the fallback path.
\* Both lookups follow an `in` test, so neither inserts a key into the
\* defaultdict; mods is the set stored in the map, pbr_covered_textures the
\* map as the lookups leave it
match_paths(pbr, base_texture_path, fallback) ==
    IF base_texture_path \in DOMAIN pbr
    THEN [how |-> "Direct match", mods |-> pbr[base_texture_path],
          pbr_covered_textures |-> pbr]
    ELSE IF fallback # "" /\ fallback \in DOMAIN pbr
    THEN [how |-> "Numbered variant match", mods |-> pbr[fallback],
          pbr_covered_textures |-> pbr]
    ELSE [how |-> "NO MATCH", mods |-> {}, pbr_covered_textures |-> pbr]

\* lines 29-55: the match of one regular identity: how it matched and the
\* providing set
find_match(pbr, base_texture_path) ==
    match_paths(pbr, base_texture_path, fallback_path(base_texture_path))

\* mapping[k] of a defaultdict, without inserting
Default(mapping, k, default) == IF k \in DOMAIN mapping THEN mapping[k] ELSE default

\* classify that reads coverage_providers[mod_name] for an uncovered
\* identity too, which makes the defaultdict insert the key
classify_touches_providers(res, base_texture_path, mod_names, providing_pbr_mods) ==
    [res EXCEPT
        !.covered_mods =
            IF providing_pbr_mods = {} THEN @
            ELSE [m \in DOMAIN @ \cup mod_names |->
                    IF m \in mod_names
                    THEN Append(Default(@, m, <<>>), base_texture_path) ELSE @[m]],
        !.coverage_providers =
            [m \in DOMAIN @ \cup mod_names |->
                IF m \in mod_names
                THEN Default(@, m, {}) \cup providing_pbr_mods ELSE @[m]],
        !.uncovered_mods =
            IF providing_pbr_mods # {} THEN @
            ELSE [m \in DOMAIN @ \cup mod_names |->
                    IF m \in mod_names
                    THEN Append(Default(@, m, <<>>), base_texture_path) ELSE @[m]]]

\* classify with coverage_providers[mod_name] = providing_pbr_mods in place
\* of .update(providing_pbr_mods)
classify_overwrites_providers(res, base_texture_path, mod_names, providing_pbr_mods) ==
    IF providing_pbr_mods # {}
    THEN [res EXCEPT
            !.covered_mods =
                [m \in DOMAIN @ \cup mod_names |->
                    IF m \in mod_names
                    THEN Append(Default(@, m, <<>>), base_texture_path) ELSE @[m]],
            !.coverage_providers =
                [m \in DOMAIN @ \cup mod_names |->
                    IF m \in mod_names THEN providing_pbr_mods ELSE @[m]]]
    ELSE [res EXCEPT
            !.uncovered_mods =
                [m \in DOMAIN @ \cup mod_names |->
                    IF m \in mod_names
                    THEN Append(Default(@, m, <<>>), base_texture_path) ELSE @[m]]]

\* classify that keeps the providers every covered identity of a mod has
classify_intersects_providers(res, base_texture_path, mod_names, providing_pbr_mods) ==
    IF providing_pbr_mods # {}
    THEN [res EXCEPT
            !.covered_mods =
                [m \in DOMAIN @ \cup mod_names |->
                    IF m \in mod_names
                    THEN Append(Default(@, m, <<>>), base_texture_path) ELSE @[m]],
            !.coverage_providers =
                [m \in DOMAIN @ \cup mod_names |->
                    IF m \in mod_names
                    THEN Default(@, m, providing_pbr_mods) \cap providing_pbr_mods
                    ELSE @[m]]]
    ELSE [res EXCEPT
            !.uncovered_mods =
                [m \in DOMAIN @ \cup mod_names |->
                    IF m \in mod_names
                    THEN Append(Default(@, m, <<>>), base_texture_path) ELSE @[m]]]

\* classify that appends a covered identity to the uncovered list as well
classify_appends_both(res, base_texture_path, mod_names, providing_pbr_mods) ==
    IF providing_pbr_mods # {}
    THEN [res EXCEPT
            !.covered_mods =
                [m \in DOMAIN @ \cup mod_names |->
                    IF m \in mod_names
                    THEN Append(Default(@, m, <<>>), base_texture_path) ELSE @[m]],
            !.uncovered_mods =
                [m \in DOMAIN @ \cup mod_names |->
                    IF m \in mod_names
                    THEN Append(Default(@, m, <<>>), base_texture_path) ELSE @[m]],
            !.coverage_providers =
                [m \in DOMAIN @ \cup mod_names |->
                    IF m \in mod_names
                    THEN Default(@, m, {}) \cup providing_pbr_mods ELSE @[m]]]
    ELSE [res EXCEPT
            !.uncovered_mods =
                [m \in DOMAIN @ \cup mod_names |->
                    IF m \in mod_names
                    THEN Append(Default(@, m, <<>>), base_texture_path) ELSE @[m]]]

\* lines 63-68: `for mod_name in mod_names`; every mod touches its own keys
\* only, so the set's iteration order does not show in the result
classify(res, base_texture_path, mod_names, providing_pbr_mods) ==
    IF providing_pbr_mods # {}
    THEN [res EXCEPT
            !.covered_mods =
                [m \in DOMAIN @ \cup mod_names |->
                    IF m \in mod_names
                    THEN Append(Default(@, m, <<>>), base_texture_path) ELSE @[m]],
            !.coverage_providers =
                [m \in DOMAIN @ \cup mod_names |->
                    IF m \in mod_names
                    THEN Default(@, m, {}) \cup providing_pbr_mods ELSE @[m]]]
    ELSE [res EXCEPT
            !.uncovered_mods =
                [m \in DOMAIN @ \cup mod_names |->
                    IF m \in mod_names
                    THEN Append(Default(@, m, <<>>), base_texture_path) ELSE @[m]]]

\* lines 57-59: the debug line kept for elven textures
log_match(res, base_texture_path, match) ==
    IF contains(lower(base_texture_path), "elven")
    THEN [res EXCEPT !.debug_matches =
             Append(@, <<"Checking", base_texture_path, match.how>>)]
    ELSE res

\* lines 28-68: the body of the loop over the items; the coverage map is
\* left as the lookups of the match left it
analyze_item(res, base_texture_path, mod_names, match) ==
    classify(log_match([res EXCEPT !.pbr_covered_textures = match.pbr_covered_textures],
                       base_texture_path, match),
             base_texture_path, mod_names, match.mods)

\* `for base_texture_path, mod_names in regular_textures.items()`; res holds
\* the three result maps, the debug lines and the two argument maps
RECURSIVE analyze_items(_, _)
analyze_items(res, i) ==
    IF i > Len(res.regular_textures) THEN res
    ELSE analyze_items(analyze_item(res, res.regular_textures[i][1],
                                    res.regular_textures[i][2],
                                    find_match(res.pbr_covered_textures,
                                               res.regular_textures[i][1])),
                       i + 1)

\* CoverageAnalyzer.find_coverage_analysis; regular is the items() sequence.
\* The result carries the two arguments as the call leaves them
find_coverage_analysis(pbr, regular) ==
    analyze_items([covered_mods |-> <<>>, uncovered_mods |-> <<>>,
                   coverage_providers |-> <<>>, debug_matches |-> <<>>,
                   pbr_covered_textures |-> pbr, regular_textures |-> regular],
                  1)

(***************************************************************************)
(* PBRCoverageChecker: the scans and the analysis the plugin class holds   *)
(* itself, with its own suffix table and exclusion lists                   *)
(***************************************************************************)

\* the table without its _d entry
_pbr_suffixes_without_d ==
    << "_envmask", "_rmaos", "_flow", "_cnr", "_msn", "_em", "_bl", "_sk",
       "_b", "_e", "_f", "_g", "_i", "_m", "_n", "_p", "_s", "mask" >>

\* lines 19-39: the suffix table of the class
_pbr_suffixes ==
    << "_envmask", "_rmaos", "_flow", "_cnr", "_msn", "_em", "_bl", "_sk",
       "_b", "_d", "_e", "_f", "_g", "_i", "_m", "_n", "_p", "_s", "mask" >>

\* lines 41-52
_normalize_path(path_str) ==
    IF path_str = "" THEN ""
    ELSE LET NonEmpty(part) == part # ""
         IN  join(SelectSeq(split(replace(path_str, "\\", "/"), "/"), NonEmpty), "/")

\* lines 66-73: the for/else loop over the suffix table, from index i on
RECURSIVE _strip_suffix(_, _)
_strip_suffix(stem, i) ==
    IF i > Len(_pbr_suffixes) THEN stem
    ELSE IF endswith(stem, _pbr_suffixes[i])
         THEN SubSeq(stem, 1, Len(stem) - Len(_pbr_suffixes[i]))
         ELSE _strip_suffix(stem, i + 1)

\* lines 54-79
_get_base_texture_name(texture_path) ==
    reconstruct(PathParent(_normalize_path(texture_path)),
                _strip_suffix(PathStem(_normalize_path(texture_path)), 1))

\* lines 164-184: the local list excluded_patterns
_pbr_excluded_patterns ==
    << "cameras", "dyndolod", "lod", "markers", "facetint", "skintint",
       "landscape", "grass", "meta.ini", "cc", "_resourcepack" >>

\* lines 202-202: as is_excluded_dir
_is_excluded_dir(s) ==
    \E i \in 1..Len(_pbr_excluded_patterns) : contains(s, _pbr_excluded_patterns[i])

\* lines 264-285: as check_reference
_check_reference(st, f, texture_path) ==
    IF ~is_ascii(texture_path)
    THEN [st |-> [st EXCEPT
                !.excluded_count = @ + 1,
                !.debug = LogIf(@, st.excluded_count + 1 <= 3,
                            <<"Excluded (non-ASCII chars)", texture_path>>)],
          has_base |-> FALSE, base |-> "", skip |-> TRUE]
    ELSE record_reference(st, f, texture_path,
                          lower(_get_base_texture_name(texture_path)))

\* lines 236-285: as named_reference
_named_reference(st, f, texture_name) ==
    _check_reference(st, f,
        _normalize_path(locate_reference(f, texture_name,
                                        pbr_folder_matches(f.folder, texture_name))))

\* lines 234-285: as given_reference
_given_reference(st, f, texture_name) ==
    IF ~truthy(texture_name) THEN NoReference(st)
    ELSE IF texture_name.type # "str"
    THEN NoReference([st EXCEPT !.err = "AttributeError"])
    ELSE _named_reference(st, f, _normalize_path(texture_name.s))

\* lines 226-285: as main_reference
_main_reference(st, merged, f) ==
    _given_reference(st, f,
        IF "match_diffuse" \in Keys(merged) THEN Get(merged, "match_diffuse")
        ELSE IF "texture" \in Keys(merged) THEN Get(merged, "texture")
        ELSE JNull)

\* lines 298-309: as normalized_slot
_normalized_slot(st, key, main, f, slot_texture_path) ==
    record_slot(st, key, main, f, slot_texture_path,
                lower(_get_base_texture_name(slot_texture_path)))

\* lines 289-309: as slot_reference
_slot_reference(st, key, value, main, f) ==
    IF ~(startswith(key, "slot") /\ isdigit(SubSeq(key, 5, Len(key)))) \/ ~truthy(value)
    THEN st
    ELSE IF value.type # "str" THEN [st EXCEPT !.err = "AttributeError"]
    ELSE _normalized_slot(st, key, main, f,
                         _normalize_path(strip_textures_prefix(value.s, lower(value.s))))

\* lines 287-309: as slot_references
RECURSIVE _slot_references(_, _, _, _, _)
_slot_references(st, merged, i, main, f) ==
    IF i > Len(merged) \/ st.err # "" THEN st
    ELSE _slot_references(_slot_reference(st, merged[i][1], merged[i][2], main, f),
                         merged, i + 1, main, f)

\* lines 226-309: as merged_entry
_merged_entry(main, merged, f) ==
    IF main.st.err # "" \/ main.skip THEN main.st
    ELSE _slot_references(main.st, merged, 1, main, f)

\* lines 222-309: as process_entry
_process_entry(st, entry, f) ==
    IF f.defaults.type # "dict" \/ entry.type # "dict"
    THEN [st EXCEPT !.err = "TypeError"]
    ELSE _merged_entry(_main_reference(st, merge(f.defaults.items, entry.items), f),
                      merge(f.defaults.items, entry.items), f)

\* lines 222-309: as process_entries
RECURSIVE _process_entries(_, _, _, _)
_process_entries(st, entries, i, f) ==
    IF i > Len(entries) \/ st.err # "" THEN st
    ELSE _process_entries(_process_entry(st, entries[i], f), entries, i + 1, f)

\* lines 197-214: as file_context
_file_context(file, mod_name, folder, texture_dir) ==
    [mod_name |-> mod_name, folder |-> folder,
     json_name |-> PathName(file.path),
     texture_dir |-> texture_dir,
     is_excluded |-> _is_excluded_dir(lower(texture_dir)),
     defaults |-> IF file.data.type = "dict" /\ "default" \in Keys(file.data.items)
                  THEN Get(file.data.items, "default") ELSE JDict(<<>>)]

\* lines 188-309: as try_file
_try_file(st, file, entries, f) ==
    IF ~file.valid THEN [st EXCEPT !.err = "JSONDecodeError"]
    ELSE IF entries.type \in {"num", "null"} THEN [st EXCEPT !.err = "TypeError"]
    ELSE _process_entries(st, iterate(entries), 1, f)

\* lines 188-312: as process_file
_process_file(st, file, mod_name, folder) ==
    except_file(_try_file(st, file, file_entries(file.data),
                         _file_context(file, mod_name, folder, PathParent(file.path))),
                file)

\* lines 187-312: as scan_files
RECURSIVE _scan_files(_, _, _, _, _)
_scan_files(st, files, i, mod_name, folder) ==
    IF i > Len(files) THEN st
    ELSE _scan_files(_process_file(st, files[i], mod_name, folder), files, i + 1,
                    mod_name, folder)

\* lines 156-315: as scan_pbr_coverage
_scan_pbr_coverage(mod_name, folder, cov, debug) ==
    IF ~folder.patcher
    THEN [pbr_covered_textures |-> cov, debug_info |-> debug]
    ELSE pbr_scan_result(mod_name,
            _scan_files([cov |-> cov,
                        debug |-> Append(debug, <<"Found PBRNifPatcher folder in", mod_name>>),
                        json_count |-> 0, excluded_count |-> 0, err |-> ""],
                       folder.jsons, 1, mod_name, folder))

\* lines 322-342: the local list excluded_patterns
_regular_excluded_patterns ==
    << "cameras", "dyndolod", "lod", "markers", "facetint", "skintint",
       "landscape", "grass", "meta.ini", "cc", "_resourcepack" >>

\* lines 355-376: as scan_dds_path
_scan_dds_path(st, dds_file, mod_name, path_str) ==
    IF ~is_ascii(path_str) THEN [st EXCEPT !.excluded_count = @ + 1]
    ELSE IF startswith(path_str, "pbr/") \/ contains(path_str, "/pbr/") THEN st
    ELSE IF \E k \in 1..Len(variant_suffixes) :
                endswith(PathStem(dds_file), variant_suffixes[k])
    THEN st
    ELSE IF \E k \in 1..Len(_regular_excluded_patterns) :
                contains(path_str, _regular_excluded_patterns[k])
    THEN [st EXCEPT !.excluded_count = @ + 1]
    ELSE [st EXCEPT
            !.reg = OrderedAdd(@, lower(_get_base_texture_name(path_str)), mod_name),
            !.found = @ \cup {lower(_get_base_texture_name(path_str))}]

\* lines 348-376: as scan_dds_file
_scan_dds_file(st, dds_file, mod_name) ==
    _scan_dds_path([st EXCEPT !.total = @ + 1], dds_file, mod_name,
                  lower(_normalize_path(replace(dds_file, "\\", "/"))))

\* lines 347-376: as scan_dds_files
RECURSIVE _scan_dds_files(_, _, _, _)
_scan_dds_files(st, files, i, mod_name) ==
    IF i > Len(files) THEN st
    ELSE _scan_dds_files(_scan_dds_file(st, files[i], mod_name), files, i + 1, mod_name)

\* lines 317-379: as scan_regular_textures
_scan_regular_textures(mod_name, folder, regular, debug) ==
    IF ~folder.textures
    THEN [regular_textures |-> regular, debug_info |-> debug]
    ELSE regular_scan_result(mod_name, debug,
            _scan_dds_files([reg |-> regular, found |-> {}, excluded_count |-> 0,
                            total |-> 0],
                           folder.dds, 1, mod_name))

\* lines 381-433: the statements of CoverageAnalyzer.find_coverage_analysis,
\* one for one
_find_coverage_analysis(pbr, regular) == find_coverage_analysis(pbr, regular)

(***************************************************************************)
(* ResultsUI / PBRCoverageChecker._show_results and _export_results        *)
(***************************************************************************)

\* set(covered_mods.keys()) | set(uncovered_mods.keys())
all_texture_mods(covered, uncovered) == DOMAIN covered \cup DOMAIN uncovered

\* the defaultdict after mapping[mod_name] was read for every mod of mods:
\* reading a missing key inserts it with the default value, here list()
read_each(mapping, mods) ==
    [m \in DOMAIN mapping \cup mods |-> Default(mapping, m, <<>>)]

\* the mods_with_coverage table built for the dialog and for the export
mods_with_coverage(covered, uncovered, regular) ==
    [m \in all_texture_mods(covered, uncovered) |->
        [covered_count |-> Len(Default(covered, m, <<>>)),
         uncovered_count |-> Len(Default(uncovered, m, <<>>)),
         total_textures |-> Cardinality({k \in 1..Len(regular) : m \in regular[k][2]}),
         uncovered_textures |-> Default(uncovered, m, <<>>)]]

(***************************************************************************)
(* Bounds and the inputs the model draws from                              *)
(***************************************************************************)

\* every sequence over S of length at most n
RECURSIVE SeqsUpTo(_, _)
SeqsUpTo(S, n) ==
    IF n = 0 THEN {<<>>}
    ELSE LET shorter == SeqsUpTo(S, n - 1)
         IN  shorter \cup {Append(q, x) : q \in shorter, x \in S}

\* every string over the characters chars of length at most n
RECURSIVE StringsUpTo(_, _)
StringsUpTo(chars, n) ==
    IF n = 0 THEN {""}
    ELSE LET shorter == StringsUpTo(chars, n - 1)
         IN  shorter \cup {q \o c : q \in shorter, c \in chars}

\* most mods in one run's enabled_mods list
MaxMods == 2

\* longest raw path string over PathChars handed to TextureUtils
MaxPathLen == 4

\* most successive applications of get_base_texture_name
MaxApply == 2

\* most downloads handed to one copy worker
MaxDownloads == 2

PathChars == {"a", ".", "/", "\\"}

\* the set of the entries of a sequence
ToSet(seq) == {seq[k] : k \in 1..Len(seq)}

\* stems made of up to two table suffixes, with and without directory and
\* extension
SuffixPaths ==
    { d \o p \o s1 \o s2 \o e :
        d \in {"", "armor/steel/"}, p \in {"", "cuirass"},
        s1 \in ToSet(pbr_suffixes) \cup {""},
        s2 \in ToSet(pbr_suffixes) \cup {"", "_02"},
        e \in {"", ".dds"} }

PathInputs == StringsUpTo(PathChars, MaxPathLen) \cup SuffixPaths

Mods == {"PBRModA", "PBRModB", "RegModB"}

JsonFile(path, data) == [path |-> path, valid |-> TRUE, data |-> data]
BadJsonFile(path) == [path |-> path, valid |-> FALSE, data |-> JNull]
ModFolder(patcher, jsons, textures, dds) ==
    [patcher |-> patcher, jsons |-> jsons, textures |-> textures, dds |-> dds]

\* array form: a texture reference and a slot with a textures\ prefix
JsonDirect ==
    JsonFile("armor/x.json",
        JList(<< JDict(<< <<"texture", JStr("x")>>,
                          <<"slot2", JStr("textures\\armor\\Y_n.dds")>> >>) >>))

\* object form: defaults, match_diffuse next to texture, a slot that repeats
\* the entry's own base texture
JsonObject ==
    JsonFile("armor/b.json",
        JDict(<< <<"default", JDict(<< <<"texture", JStr("x_02")>>,
                                       <<"slot2", JStr("armor/x_02_n.dds")>> >>)>>,
                 <<"entries", JList(<< JDict(<< <<"match_diffuse", JStr("X_d")>> >>),
                                       JDict(<<>>),
                                       JDict(<< <<"slot2", JStr("")>>,
                                                <<"texture", JStr("x_02_g")>> >>) >>)>> >>))

\* a sidecar file in an excluded directory
JsonExcluded ==
    JsonFile("meshes/dyndolod/trees/t.json",
        JList(<< JDict(<< <<"texture", JStr("t")>>,
                          <<"slot2", JStr("textures/armor/x_n.dds")>> >>) >>))

JsonExcludedPlain ==
    JsonFile("meshes/DynDOLOD/trees/u.json",
        JList(<< JDict(<< <<"texture", JStr("armor/x")>> >>),
                 JDict(<< <<"match_diffuse", JStr("y")>> >>) >>))

\* references with a non-ASCII character
JsonNonAscii ==
    JsonFile("armor/c.json",
        JList(<< JDict(<< <<"texture", JStr("é")>>,
                          <<"slot3", JStr("armor/y.dds")>> >>),
                 JDict(<< <<"slot2", JStr("armor/é_n.dds")>> >>) >>))

\* files at the patcher root: a bare object as single entry
JsonRoot ==
    JsonFile("r.json", JDict(<< <<"texture", JStr("elven")>> >>))

JsonRootX ==
    JsonFile("x.json", JList(<< JDict(<< <<"texture", JStr("/x_d")>>,
                                         <<"slotx", JStr("armor/z_07.dds")>>,
                                         <<"slot10", JStr("")>> >>) >>))

\* a reference written with its extension
JsonWithExtension ==
    JsonFile("armor/f.json", JList(<< JDict(<< <<"texture", JStr("v.dds")>> >>) >>))

\* a reference written in upper case, suffix included
JsonUpperCase ==
    JsonFile("armor/u.json", JList(<< JDict(<< <<"texture", JStr("Q_N")>> >>) >>))

\* references that name a directory of the exclusion list themselves
JsonLandscape ==
    JsonFile("d.json",
        JList(<< JDict(<< <<"texture", JStr("Landscape\\g")>>,
                          <<"slot2", JStr("textures/lod/h_n.dds")>> >>) >>))

\* files whose processing raises
JsonNotAnObject ==
    JsonFile("armor/e.json",
        JList(<< JDict(<< <<"texture", JStr("x")>> >>), JStr("oops") >>))

JsonBadReference ==
    JsonFile("armor/n.json",
        JDict(<< <<"entries", JList(<< JDict(<< <<"texture", JStr("w")>> >>),
                                       JDict(<< <<"slot2", JStr("armor/x_02.dds")>>,
                                                <<"texture", JNum(3)>> >>) >>)>> >>))

FoldersA ==
    { ModFolder(FALSE, <<>>, FALSE, <<>>),
      ModFolder(TRUE, <<JsonDirect, JsonWithExtension>>, FALSE, <<>>),
      ModFolder(TRUE, <<BadJsonFile("armor/bad.json"), JsonObject, JsonNotAnObject>>,
                TRUE, <<"PBR\\armor\\x.dds", "armor/x_02_d.dds">>),
      ModFolder(TRUE, <<JsonNonAscii, JsonUpperCase>>, FALSE, <<>>),
      ModFolder(TRUE, <<JsonNotAnObject>>, TRUE, <<"armor/k.dds">>) }

FoldersB ==
    { ModFolder(TRUE, <<JsonDirect, JsonBadReference>>, TRUE,
                <<"armor/x_d.dds", "armor/y_01.dds", "armor/k.dds">>),
      ModFolder(TRUE, <<JsonRoot, JsonRootX, JsonLandscape>>, TRUE,
                <<"PBR/armor/elven_n.dds", "PBR/armor/elven.dds">>),
      ModFolder(TRUE, <<JsonExcludedPlain, JsonExcluded>>, FALSE, <<>>) }

FoldersR ==
    { ModFolder(FALSE, <<>>, TRUE,
                <<"armor/x.dds", "armor/x_n.dds", "armor/y_02.dds", "armor/elven_d.dds",
                  "armor/z_07.dds">>),
      ModFolder(FALSE, <<>>, TRUE,
                <<"Armor\\X_02.dds", "PBR/armor/x.dds", "landscape/g.dds",
                  "armor/é.dds", "armor/Y_N.dds", "x_01.dds", "armor/ccx_d.dds">>),
      ModFolder(TRUE, <<>>, FALSE, <<>>),
      ModFolder(FALSE, <<>>, TRUE, <<"armor/K_NM.dds">>) }

(***************************************************************************)
(* State                                                                   *)
(***************************************************************************)

VARIABLES
    mod_folders,            \* the disk: mod name -> mod folder
    enabled_mods,           \* display: the (mod_name, mod_path) list
    pc,                     \* display: "pbr", "regular", "done"; "utils" outside a run
    i,                      \* display: index of the mod being scanned
    pbr_covered_textures,   \* identity -> set of providing mods
    regular_textures,       \* items of identity -> set of owning mods
    debug_info,             \* display: the debug lines
    calls,                  \* display: the component calls made, in order
    covered_mods,           \* analysis result: mod -> list of identities
    uncovered_mods,         \* analysis result: mod -> list of identities
    coverage_providers,     \* analysis result: mod -> set of PBR mods
    debug_matches,          \* CoverageAnalyzer._debug_matches
    shown,                  \* the mods_with_coverage table the dialog shows
    exported,               \* the file the export wrote, <<>> before
    texture_path,           \* the argument of a TextureUtils call
    op,                     \* the TextureUtils method called, "none" before
    result,                 \* the values returned by the calls so far
    mod_downloads,          \* CopyWorker.mod_downloads, as its items()
    results,                \* CopyWorker.results
    emitted,                \* the signals the worker has emitted, in order
    raised                  \* the downloads whose copying raised

vars == << mod_folders, enabled_mods, pc, i, pbr_covered_textures, regular_textures,
           debug_info, calls, covered_mods, uncovered_mods, coverage_providers,
           debug_matches, shown, exported, texture_path, op, result,
           mod_downloads, results, emitted, raised >>

run_vars == << mod_folders, enabled_mods, pc, i, pbr_covered_textures,
               regular_textures, debug_info, calls, covered_mods, uncovered_mods,
               coverage_providers, debug_matches, shown, exported >>

utils_vars == << texture_path, op, result >>

results_ui_vars == << shown, exported >>

copy_vars == << mod_downloads, results, emitted, raised >>

(***************************************************************************)
(* PBRCoverageChecker.display: one run over the enabled mods               *)
(***************************************************************************)

\* lines 133-141: the header of the debug lines
debug_header(mods) ==
    << <<"=== Enhanced PBR Coverage Analysis (v1.3) ===">>,
       <<"Features: match_diffuse support, default merging, path normalization">>,
       <<"Enhanced exclusions: facetint, skintint, landscape, grass, cc, _resourcepack, non-ASCII">>,
       <<"Processing enabled mods", ToString(Len(mods))>> >>
    \o [k \in 1..(IF Len(mods) < 10 THEN Len(mods) ELSE 10) |-> <<"  - ", mods[k]>>]
    \o (IF Len(mods) > 10 THEN << <<"... and more", ToString(Len(mods) - 10)>> >> ELSE <<>>)

NoResults ==
    /\ covered_mods = <<>>
    /\ uncovered_mods = <<>>
    /\ coverage_providers = <<>>
    /\ debug_matches = <<>>
    /\ shown = <<>>
    /\ exported = <<>>

NoUtils ==
    /\ texture_path = ""
    /\ op = "none"
    /\ result = <<>>

\* copier.py lines 21-27: the results of a worker that has copied nothing
NoResultsYet ==
    [copied |-> <<>>, skipped |-> <<>>, failed |-> <<>>, meta_copied |-> <<>>,
     meta_missing |-> <<>>]

\* no copy worker
NoCopy ==
    /\ mod_downloads = <<>>
    /\ results = NoResultsYet
    /\ emitted = <<>>
    /\ raised = {}

Init ==
    /\ mod_folders \in { ("PBRModA" :> a) @@ ("PBRModB" :> b) @@ ("RegModB" :> r) :
                            a \in FoldersA, b \in FoldersB, r \in FoldersR }
    /\ enabled_mods \in SeqsUpTo(Mods, MaxMods)
    /\ pc = "pbr"
    /\ i = 1
    /\ pbr_covered_textures = <<>>
    /\ regular_textures = <<>>
    /\ debug_info = debug_header(enabled_mods)
    /\ calls = <<>>
    /\ NoResults
    /\ NoUtils
    /\ NoCopy

\* display line 144
ScanPbrCoverage ==
    /\ pc = "pbr"
    /\ i <= Len(enabled_mods)
    /\ LET r == scan_pbr_coverage(enabled_mods[i], mod_folders[enabled_mods[i]],
                                  pbr_covered_textures, debug_info)
       IN  /\ pbr_covered_textures' = r.pbr_covered_textures
           /\ debug_info' = r.debug_info
    /\ calls' = Append(calls, <<"scan_pbr_coverage", i>>)
    /\ pc' = "regular"
    /\ UNCHANGED << mod_folders, enabled_mods, i, regular_textures, covered_mods,
                    uncovered_mods, coverage_providers, debug_matches, results_ui_vars, utils_vars, copy_vars >>

\* display line 145
ScanRegularTextures ==
    /\ pc = "regular"
    /\ LET r == scan_regular_textures(enabled_mods[i], mod_folders[enabled_mods[i]],
                                      regular_textures, debug_info)
       IN  /\ regular_textures' = r.regular_textures
           /\ debug_info' = r.debug_info
    /\ calls' = Append(calls, <<"scan_regular_textures", i>>)
    /\ pc' = "pbr"
    /\ i' = i + 1
    /\ UNCHANGED << mod_folders, enabled_mods, pbr_covered_textures, covered_mods,
                    uncovered_mods, coverage_providers, debug_matches, results_ui_vars, utils_vars, copy_vars >>

\* the analysis called from inside the loop over the mods
FindCoverageAnalysis_in_loop ==
    /\ pc = "pbr"
    /\ LET r == find_coverage_analysis(pbr_covered_textures, regular_textures)
       IN  /\ covered_mods' = r.covered_mods
           /\ uncovered_mods' = r.uncovered_mods
           /\ coverage_providers' = r.coverage_providers
           /\ debug_matches' = r.debug_matches
           /\ pbr_covered_textures' = r.pbr_covered_textures
           /\ regular_textures' = r.regular_textures
    /\ calls' = Append(calls, <<"find_coverage_analysis", 0>>)
    /\ pc' = "done"
    /\ UNCHANGED << mod_folders, enabled_mods, i, debug_info, results_ui_vars, utils_vars, copy_vars >>

\* display line 148
FindCoverageAnalysis ==
    /\ pc = "pbr"
    /\ i > Len(enabled_mods)
    /\ LET r == find_coverage_analysis(pbr_covered_textures, regular_textures)
       IN  /\ covered_mods' = r.covered_mods
           /\ uncovered_mods' = r.uncovered_mods
           /\ coverage_providers' = r.coverage_providers
           /\ debug_matches' = r.debug_matches
           /\ pbr_covered_textures' = r.pbr_covered_textures
           /\ regular_textures' = r.regular_textures
    /\ calls' = Append(calls, <<"find_coverage_analysis", 0>>)
    /\ pc' = "done"
    /\ UNCHANGED << mod_folders, enabled_mods, i, debug_info, results_ui_vars, utils_vars, copy_vars >>

\* display line 151, _show_results lines 435-574: the dialog with the
\* results table; the layout of the text is not part of the state
ShowResults ==
    /\ pc = "done"
    /\ IF DOMAIN covered_mods # {} \/ DOMAIN uncovered_mods # {}
       THEN /\ shown' = mods_with_coverage(covered_mods, uncovered_mods, regular_textures)
            /\ covered_mods' = read_each(covered_mods,
                                         all_texture_mods(covered_mods, uncovered_mods))
       ELSE /\ shown' = <<>>
            /\ covered_mods' = covered_mods
    /\ pc' = "shown"
    /\ UNCHANGED << mod_folders, enabled_mods, i, pbr_covered_textures, regular_textures,
                    debug_info, calls, uncovered_mods, coverage_providers, debug_matches,
                    exported, utils_vars, copy_vars >>

\* _export_results lines 576-684, the handler of the Export button of the
\* open dialog; file_path is what the file dialog returns, "" on cancel
ExportResults ==
    /\ pc = "shown"
    /\ \E file_path \in {"", "pbr_coverage_analysis.txt"} :
           IF file_path = ""
           THEN UNCHANGED << covered_mods, exported >>
           ELSE IF DOMAIN covered_mods # {}
           THEN /\ exported' = << file_path,
                                  mods_with_coverage(covered_mods, uncovered_mods,
                                                     regular_textures) >>
                /\ covered_mods' = read_each(covered_mods,
                                             all_texture_mods(covered_mods, uncovered_mods))
           ELSE /\ exported' = << file_path, "No mods found with PBR coverage." >>
                /\ covered_mods' = covered_mods
    /\ UNCHANGED << mod_folders, enabled_mods, pc, i, pbr_covered_textures,
                    regular_textures, debug_info, calls, uncovered_mods,
                    coverage_providers, debug_matches, shown, utils_vars, copy_vars >>

Next ==
    \/ ScanPbrCoverage
    \/ ScanRegularTextures
    \/ FindCoverageAnalysis
    \/ ShowResults
    \/ ExportResults

Spec == Init /\ [][Next]_vars

(***************************************************************************)
(* TextureUtils called on its own                                          *)
(***************************************************************************)

NoRun ==
    /\ mod_folders = <<>>
    /\ enabled_mods = <<>>
    /\ pc = "utils"
    /\ i = 1
    /\ pbr_covered_textures = <<>>
    /\ regular_textures = <<>>
    /\ debug_info = <<>>
    /\ calls = <<>>
    /\ NoResults

InitUtils ==
    /\ NoRun
    /\ NoCopy
    /\ texture_path \in PathInputs
    /\ op = "none"
    /\ result = <<>>

NormalizePath ==
    /\ pc = "utils"
    /\ op = "none"
    /\ op' = "normalize_path"
    /\ result' = <<normalize_path(texture_path)>>
    /\ UNCHANGED << texture_path, run_vars, copy_vars >>

\* get_base_texture_name on the path, then on its own result
GetBaseTextureName ==
    /\ pc = "utils"
    /\ op \in {"none", "get_base_texture_name"}
    /\ Len(result) < MaxApply
    /\ op' = "get_base_texture_name"
    /\ result' = Append(result, get_base_texture_name(
                            IF result = <<>> THEN texture_path ELSE result[Len(result)]))
    /\ UNCHANGED << texture_path, run_vars, copy_vars >>

NextUtils == NormalizePath \/ GetBaseTextureName

SpecUtils == InitUtils /\ [][NextUtils]_vars

(***************************************************************************)
(* CopyWorker.run (wabbajack_download_copier/copier.py)                    *)
(***************************************************************************)

\* the archive names the downloads of the model have
DownloadFiles == {"a.7z", "b.7z"}

\* the items of a mod_downloads dict: <<mod_name, source name>> pairs with
\* distinct mod names; the dialog starts no worker for an empty dict
DownloadItems ==
    {d \in SeqsUpTo(Mods \X DownloadFiles, MaxDownloads) :
        /\ Len(d) >= 1
        /\ \A j, k \in 1..Len(d) : j # k => d[j][1] # d[k][1]}

scan_vars == << mod_folders, enabled_mods, pbr_covered_textures, regular_textures,
                debug_info, calls, covered_mods, uncovered_mods, coverage_providers,
                debug_matches, shown, exported >>

\* a worker that was constructed and started
InitCopy ==
    /\ mod_folders = <<>>
    /\ enabled_mods = <<>>
    /\ pbr_covered_textures = <<>>
    /\ regular_textures = <<>>
    /\ debug_info = <<>>
    /\ calls = <<>>
    /\ NoResults
    /\ NoUtils
    /\ mod_downloads \in DownloadItems
    /\ results = NoResultsYet
    /\ emitted = <<>>
    /\ raised = {}
    /\ pc = "run"
    /\ i = 0

\* int((i / total_files) * 100); for the totals of the model the float
\* product has the integer part of the exact quotient
progress_percent(index, total_files) == (index * 100) \div total_files

\* lines 45-53: the main file; destination is "absent", of the "same" size
\* or of a size that "differs"
copy_main(res, item, destination) ==
    IF destination = "same"
    THEN [res EXCEPT !.skipped = Append(@, <<item[1], item[2], "already exists">>)]
    ELSE [res EXCEPT !.copied = Append(@, <<item[1], item[2]>>)]

\* lines 56-70: the .meta file next to the download; meta_source tells
\* whether it exists
copy_meta(res, item, meta_source, meta_destination) ==
    IF ~meta_source
    THEN [res EXCEPT !.meta_missing =
             Append(@, <<item[1], item[2] \o ".meta", "no meta file found">>)]
    ELSE IF meta_destination = "same"
    THEN [res EXCEPT !.skipped =
             Append(@, <<item[1], item[2] \o ".meta", "already exists">>)]
    ELSE IF meta_destination = "differs"
    THEN [res EXCEPT !.meta_copied = Append(@, <<item[1], item[2] \o ".meta", "updated">>)]
    ELSE [res EXCEPT !.meta_copied = Append(@, <<item[1], item[2] \o ".meta">>)]

\* lines 72-73
record_failure(res, item) ==
    [res EXCEPT !.failed = Append(@, <<item[1], item[2], "error">>)]

\* lines 43-73: the try statement of one download; main_raises and
\* meta_raises tell whether a file system call on the main file, and on
\* the .meta file, raises
copy_download(res, item, destination, main_raises, meta_source, meta_destination, meta_raises) ==
    IF main_raises THEN record_failure(res, item)
    ELSE IF meta_raises THEN record_failure(copy_main(res, item, destination), item)
    ELSE copy_meta(copy_main(res, item, destination), item, meta_source, meta_destination)

\* lines 30-32 and 78-79: mkdir of the destination, which may raise
MakeDestination ==
    /\ pc = "run"
    /\ \E mkdir_raises \in BOOLEAN :
           IF mkdir_raises
           THEN /\ emitted' = Append(emitted, <<"error_occurred", "Copy operation failed">>)
                /\ pc' = "returned"
           ELSE /\ emitted' = emitted
                /\ pc' = "copy"
    /\ UNCHANGED << i, mod_downloads, results, raised, scan_vars, utils_vars >>

\* one download whose copying, when it raises, ends the run
CopyDownload_unguarded ==
    /\ pc = "copy"
    /\ i < Len(mod_downloads)
    /\ \E destination, meta_destination \in {"absent", "same", "differs"} :
       \E main_raises, meta_source, meta_raises \in BOOLEAN :
           /\ results' = copy_download(results, mod_downloads[i + 1], destination,
                                       main_raises, meta_source, meta_destination,
                                       meta_raises)
           /\ raised' = IF main_raises \/ meta_raises THEN raised \cup {i + 1} ELSE raised
           /\ emitted' =
                  IF main_raises \/ meta_raises
                  THEN emitted \o
                       << <<"progress_updated", progress_percent(i, Len(mod_downloads)),
                            mod_downloads[i + 1][1]>>,
                          <<"error_occurred", "Copy operation failed">> >>
                  ELSE Append(emitted,
                              <<"progress_updated", progress_percent(i, Len(mod_downloads)),
                                mod_downloads[i + 1][1]>>)
           /\ pc' = IF main_raises \/ meta_raises THEN "returned" ELSE pc
    /\ i' = i + 1
    /\ UNCHANGED << mod_downloads, scan_vars, utils_vars >>

\* lines 34-73: one turn of the loop over the downloads
CopyDownload ==
    /\ pc = "copy"
    /\ i < Len(mod_downloads)
    /\ \E destination, meta_destination \in {"absent", "same", "differs"} :
       \E main_raises, meta_source, meta_raises \in BOOLEAN :
           /\ results' = copy_download(results, mod_downloads[i + 1], destination,
                                       main_raises, meta_source, meta_destination,
                                       meta_raises)
           /\ raised' = IF main_raises \/ meta_raises THEN raised \cup {i + 1} ELSE raised
    /\ emitted' = Append(emitted,
                         <<"progress_updated", progress_percent(i, Len(mod_downloads)),
                           mod_downloads[i + 1][1]>>)
    /\ i' = i + 1
    /\ UNCHANGED << pc, mod_downloads, scan_vars, utils_vars >>

\* lines 75-76: after the loop
CopyCompleted ==
    /\ pc = "copy"
    /\ i = Len(mod_downloads)
    /\ emitted' = emitted \o << <<"progress_updated", 100, "Copy operation completed">>,
                                <<"copy_completed", results>> >>
    /\ pc' = "returned"
    /\ UNCHANGED << i, mod_downloads, results, raised, scan_vars, utils_vars >>

NextCopy == MakeDestination \/ CopyDownload \/ CopyCompleted

\* the thread runs until run returns: every file system call returns
SpecCopy == InitCopy /\ [][NextCopy]_vars /\ WF_vars(NextCopy)

(***************************************************************************)
(* Properties of TextureUtils (checked under SpecUtils)                    *)
(***************************************************************************)

\* C1: get_base_texture_name is idempotent: applying it to its own result
\* returns that result again, for every input path.
C1_Idempotent ==
    (op = "get_base_texture_name" /\ Len(result) >= 2) => result[2] = result[1]

\* C2: the output of normalize_path contains no backslash and no empty
\* segment, and neither starts nor ends with '/'.
C2_NormalizedOutput ==
    op = "normalize_path" =>
        /\ ~contains(result[1], "\\")
        /\ ~contains(result[1], "//")
        /\ ~startswith(result[1], "/")
        /\ ~endswith(result[1], "/")

\* a path with a leading backslash and a doubled slash was normalized to a
\* non-empty result
C2_Witness ==
    /\ op = "normalize_path"
    /\ startswith(texture_path, "\\")
    /\ contains(texture_path, "//")
    /\ result[1] # ""

\* the table entries the stem of the call's path ends with
MatchingSuffixes ==
    LET stem == PathStem(normalize_path(texture_path))
    IN  {k \in 1..Len(pbr_suffixes) : endswith(stem, pbr_suffixes[k])}

\* C3: the suffix get_base_texture_name removes is the longest table entry
\* the stem ends with; no table entry comes after an entry that is a string
\* suffix of it.
C3_LongestSuffixStripped ==
    (op = "get_base_texture_name" /\ Len(result) >= 1) =>
        LET normalized == normalize_path(texture_path)
            stem == PathStem(normalized)
            directory == PathParent(normalized)
            longest == IF MatchingSuffixes = {} THEN 0
                       ELSE Len(pbr_suffixes[CHOOSE k \in MatchingSuffixes :
                                \A j \in MatchingSuffixes :
                                    Len(pbr_suffixes[j]) <= Len(pbr_suffixes[k])])
            kept == SubSeq(stem, 1, Len(stem) - longest)
        IN  /\ result[1] = (IF directory = "." THEN "" ELSE directory \o "/")
                               \o kept \o ".dds"
            /\ \A j \in 1..Len(pbr_suffixes) : \A k \in 1..(j - 1) :
                   ~endswith(pbr_suffixes[j], pbr_suffixes[k])

\* a stem that ends with two table entries of different length was stripped
C3_Witness ==
    /\ op = "get_base_texture_name"
    /\ Len(result) >= 1
    /\ \E j, k \in MatchingSuffixes : Len(pbr_suffixes[j]) < Len(pbr_suffixes[k])
    /\ texture_path = "armor/steel/cuirass_envmask.dds"
    /\ result[1] = "armor/steel/cuirass.dds"

(***************************************************************************)
(* Properties of one run (checked under Spec)                              *)
(***************************************************************************)

\* regular_textures as a mapping
RegularMap == AsMap(regular_textures)

\* the identities whose regular_textures set contains mod m
Owned(m) == {id \in Keys(regular_textures) : m \in RegularMap[id]}

CoveredOf(m) == IF m \in DOMAIN covered_mods THEN ToSet(covered_mods[m]) ELSE {}
UncoveredOf(m) == IF m \in DOMAIN uncovered_mods THEN ToSet(uncovered_mods[m]) ELSE {}
ProvidersOf(m) == IF m \in DOMAIN coverage_providers THEN coverage_providers[m] ELSE {}

\* the identity ends with _01 .. _05 before its .dds extension
IsNumbered(id) ==
    /\ Len(id) >= 7
    /\ SubSeq(id, Len(id) - 6, Len(id)) \in
           {"_01.dds", "_02.dds", "_03.dds", "_04.dds", "_05.dds"}

\* the identity without the last three characters of its stem
Unnumbered(id) == SubSeq(id, 1, Len(id) - 7) \o ".dds"

\* the identity has a numbered-variant fallback entry in the coverage map
HasFallback(id) == IsNumbered(id) /\ Unnumbered(id) \in DOMAIN pbr_covered_textures

\* the positions of enabled_mods whose PBR scan, and whose regular scan,
\* has returned
PbrScans == 1..(IF pc = "regular" THEN i ELSE i - 1)
RegularScans == 1..(i - 1)

\* the mods whose PBR scan has returned in this run
ScannedPbr == {enabled_mods[k] : k \in PbrScans}

\* C4: an identity that is a key of both maps is appended to covered[m] of
\* every owning mod m, never to uncovered[m]; the set credited is
\* coverage_map[identity], so a mod all of whose identities match directly
\* has exactly the union of their entries as providers, whatever the
\* numbered-variant fallback entries hold.
C4_DirectMatch ==
    pc = "done" =>
        \A id \in Keys(regular_textures) \cap DOMAIN pbr_covered_textures :
            \A m \in RegularMap[id] :
                /\ id \in CoveredOf(m)
                /\ id \notin UncoveredOf(m)
                /\ pbr_covered_textures[id] \subseteq ProvidersOf(m)
                /\ Owned(m) \subseteq DOMAIN pbr_covered_textures =>
                       ProvidersOf(m) = UNION {pbr_covered_textures[x] : x \in Owned(m)}

\* a mod whose identities all match directly owns a numbered identity whose
\* fallback entry names a provider the direct entry does not
C4_Witness ==
    /\ pc = "done"
    /\ \E id \in Keys(regular_textures) \cap DOMAIN pbr_covered_textures :
           \E m \in RegularMap[id] :
               /\ Owned(m) \subseteq DOMAIN pbr_covered_textures
               /\ HasFallback(id)
               /\ ~(pbr_covered_textures[Unnumbered(id)] \subseteq ProvidersOf(m))
               /\ id \in CoveredOf(m)

\* C5: an identity that is no key of coverage_map is covered iff its stem
\* ends with _01 .. _05 and the identity without those three characters is
\* a key; the providers are then that entry's mods and covered[m] records
\* the original identity.
C5_NumberedFallback ==
    pc = "done" =>
        \A id \in Keys(regular_textures) \ DOMAIN pbr_covered_textures :
            \A m \in RegularMap[id] :
                /\ id \in CoveredOf(m) <=> HasFallback(id)
                /\ HasFallback(id) =>
                       /\ pbr_covered_textures[Unnumbered(id)] \subseteq ProvidersOf(m)
                       /\ id \notin UncoveredOf(m)
                       /\ Unnumbered(id) \notin Owned(m) => Unnumbered(id) \notin CoveredOf(m)

\* a numbered identity was covered through its fallback entry, next to a
\* numbered identity without fallback entry
C5_Witness ==
    /\ pc = "done"
    /\ \E id \in Keys(regular_textures) \ DOMAIN pbr_covered_textures :
           \E m \in RegularMap[id] :
               /\ HasFallback(id)
               /\ id \in CoveredOf(m)
               /\ Unnumbered(id) \notin Owned(m)
    /\ \E id \in Keys(regular_textures) \ DOMAIN pbr_covered_textures :
           IsNumbered(id) /\ ~HasFallback(id)

\* the identity matches neither directly nor through the fallback
Unmatched(id) == id \notin DOMAIN pbr_covered_textures /\ ~HasFallback(id)

\* C6: an identity that matches neither way is appended to uncovered[m] of
\* every owning mod, to no covered list, and adds nothing to providers; with
\* an empty coverage_map, covered and providers are empty.
C6_NoMatch ==
    pc = "done" =>
        /\ \A id \in Keys(regular_textures) : \A m \in RegularMap[id] :
               Unmatched(id) => id \in UncoveredOf(m) /\ id \notin CoveredOf(m)
        /\ \A m \in Mods :
               (\A id \in Owned(m) : Unmatched(id)) =>
                   m \notin DOMAIN coverage_providers /\ m \notin DOMAIN covered_mods
        /\ DOMAIN pbr_covered_textures = {} =>
               DOMAIN covered_mods = {} /\ DOMAIN coverage_providers = {}

\* with an empty coverage_map a mod got uncovered identities
C6_Witness ==
    /\ pc = "done"
    /\ DOMAIN pbr_covered_textures = {}
    /\ \E m \in Mods : Owned(m) # {} /\ UncoveredOf(m) = Owned(m)

\* the result of an analysis with the lists read as sets
AsSets(res) ==
    [covered |-> [m \in DOMAIN res.covered_mods |-> ToSet(res.covered_mods[m])],
     uncovered |-> [m \in DOMAIN res.uncovered_mods |-> ToSet(res.uncovered_mods[m])],
     providers |-> res.coverage_providers]

\* every order of the entries of a sequence
Orders(seq) ==
    {[k \in 1..Len(seq) |-> seq[f[k]]] : f \in Permutations(1..Len(seq))}

\* C7: whatever the iteration order of regular_map's entries, the analysis
\* returns the same covered and uncovered sets and the same providers for
\* every mod.
C7_OrderIndependent ==
    pc = "done" =>
        \A items \in Orders(regular_textures) :
            AsSets(find_coverage_analysis(pbr_covered_textures, items))
                = AsSets([covered_mods |-> covered_mods,
                          uncovered_mods |-> uncovered_mods,
                          coverage_providers |-> coverage_providers])

\* a mod has two covered identities with different providing sets
C7_Witness ==
    /\ pc = "done"
    /\ \E m \in Mods :
           /\ Len(regular_textures) >= 2
           /\ \E x, y \in CoveredOf(m) :
                  find_match(pbr_covered_textures, x).mods
                      # find_match(pbr_covered_textures, y).mods

\* the identities a PBR scan of mod m alone adds
Adds(m) ==
    DOMAIN scan_pbr_coverage(m, mod_folders[m], <<>>, <<>>).pbr_covered_textures

\* C8: when two different PBR mods both add an identity, in either scan
\* order, the providers of every regular mod owning it contain both.
C8_MultiProvider ==
    pc = "done" =>
        \A a, b \in ScannedPbr :
            a # b =>
                \A id \in Adds(a) \cap Adds(b) :
                    /\ {a, b} \subseteq pbr_covered_textures[id]
                    /\ id \in Keys(regular_textures) =>
                           \A m \in RegularMap[id] : {a, b} \subseteq ProvidersOf(m)

\* PBRModA and PBRModB both added an identity that a mod owns
C8_Witness ==
    /\ pc = "done"
    /\ {"PBRModA", "PBRModB"} \subseteq ScannedPbr
    /\ \E id \in Adds("PBRModA") \cap Adds("PBRModB") :
           /\ id \in Keys(regular_textures)
           /\ \E m \in RegularMap[id] : ProvidersOf(m) = {"PBRModA", "PBRModB"}

\* C9: an entry of a sidecar file whose directory matches the exclusion
\* list never adds a key to coverage_map: while every sidecar file of every
\* scanned mod lies in an excluded directory, coverage_map is empty.
C9_ExcludedNeverAdded ==
    (\A m \in ScannedPbr : \A k \in 1..Len(mod_folders[m].jsons) :
        is_excluded_dir(lower(PathParent(mod_folders[m].jsons[k].path))))
    => DOMAIN pbr_covered_textures = {}

\* C10: coverage_map has no key with a non-ASCII character.
C10_AsciiKeys ==
    \A id \in DOMAIN pbr_covered_textures : is_ascii(id)

(***************************************************************************)
(* Properties of the scans (checked under Spec)                            *)
(***************************************************************************)

\* the state a PBR scan starts a folder with
EmptyScan ==
    [cov |-> <<>>, debug |-> <<>>, json_count |-> 0, excluded_count |-> 0, err |-> ""]

\* the try body of the k-th json file of mod m on its own
TryAlone(m, k) ==
    LET folder == mod_folders[m]
        file == folder.jsons[k]
    IN  try_file(EmptyScan, file, file_entries(file.data),
                 file_context(file, m, folder, PathParent(file.path)))

\* processing the k-th json file of mod m raises
FileRaises(m, k) == TryAlone(m, k).err # ""

\* the folder without its k-th json file, and with that file only
WithoutFile(folder, k) ==
    [folder EXCEPT !.jsons = SubSeq(@, 1, k - 1) \o SubSeq(@, k + 1, Len(@))]
OnlyFile(folder, k) == [folder EXCEPT !.jsons = <<@[k]>>]

\* the identities a PBR scan of the folder adds for mod m
AddsOf(m, folder) ==
    DOMAIN scan_pbr_coverage(m, folder, <<>>, <<>>).pbr_covered_textures

\* the error lines of the debug log that name the path
ErrorLines(path) ==
    {j \in 1..Len(debug_info) :
        /\ Len(debug_info[j]) = 3
        /\ debug_info[j][1] = "Error reading"
        /\ debug_info[j][2] = path}

\* the finished PBR scans of a folder in which a file of that path raises
FailingScans(path) ==
    {j \in PbrScans :
        \E k \in 1..Len(mod_folders[enabled_mods[j]].jsons) :
            /\ mod_folders[enabled_mods[j]].jsons[k].path = path
            /\ FileRaises(enabled_mods[j], k)}

\* C11: a json file whose processing raises costs one error line per scan
\* and nothing else: the other files of the mod contribute what they
\* contribute without it, and every scanned mod's entries are in
\* coverage_map.
C11_ErrorsNeverAbort ==
    \A m \in ScannedPbr : \A k \in 1..Len(mod_folders[m].jsons) :
        FileRaises(m, k) =>
            /\ Cardinality(ErrorLines(mod_folders[m].jsons[k].path))
                   = Cardinality(FailingScans(mod_folders[m].jsons[k].path))
            /\ \A id \in AddsOf(m, WithoutFile(mod_folders[m], k)) :
                   id \in DOMAIN pbr_covered_textures /\ m \in pbr_covered_textures[id]
            /\ AddsOf(m, mod_folders[m])
                   = AddsOf(m, WithoutFile(mod_folders[m], k))
                         \cup AddsOf(m, OnlyFile(mod_folders[m], k))
            /\ \A n \in ScannedPbr : \A id \in AddsOf(n, mod_folders[n]) :
                   id \in DOMAIN pbr_covered_textures /\ n \in pbr_covered_textures[id]

\* the first mod has a file that raises before a file that adds entries,
\* and the mod scanned after it added entries too
C11_Witness ==
    /\ pc = "done"
    /\ Len(enabled_mods) = 2
    /\ enabled_mods[1] # enabled_mods[2]
    /\ \E k \in 1..Len(mod_folders[enabled_mods[1]].jsons) :
           /\ FileRaises(enabled_mods[1], k)
           /\ \E later \in (k + 1)..Len(mod_folders[enabled_mods[1]].jsons) :
                  /\ ~FileRaises(enabled_mods[1], later)
                  /\ AddsOf(enabled_mods[1], OnlyFile(mod_folders[enabled_mods[1]], later))
                         \ AddsOf(enabled_mods[1], OnlyFile(mod_folders[enabled_mods[1]], k))
                         # {}
    /\ AddsOf(enabled_mods[2], mod_folders[enabled_mods[2]]) # {}
    /\ \A id \in AddsOf(enabled_mods[2], mod_folders[enabled_mods[2]]) :
           enabled_mods[2] \in pbr_covered_textures[id]

\* C12: a PBR scan of a mod without PBRNifPatcher folder leaves
\* coverage_map and the debug log as they were, and a regular scan of a mod
\* without textures folder leaves regular_map and the debug log as they were.
C12_MissingFolderNoOp ==
    [][/\ (pc = "pbr" /\ pc' = "regular" /\ ~mod_folders[enabled_mods[i]].patcher)
            => UNCHANGED << pbr_covered_textures, regular_textures, debug_info >>
       /\ (pc = "regular" /\ pc' = "pbr" /\ ~mod_folders[enabled_mods[i]].textures)
            => UNCHANGED << pbr_covered_textures, regular_textures, debug_info >>]_vars

\* both scans of a mod without either folder have returned, after the scans
\* of another mod filled both maps
C12_Witness ==
    /\ pc = "pbr"
    /\ i = 3
    /\ ~mod_folders[enabled_mods[2]].patcher
    /\ ~mod_folders[enabled_mods[2]].textures
    /\ DOMAIN pbr_covered_textures # {}
    /\ Len(regular_textures) > 0
    /\ calls = << <<"scan_pbr_coverage", 1>>, <<"scan_regular_textures", 1>>,
                  <<"scan_pbr_coverage", 2>>, <<"scan_regular_textures", 2>> >>

\* C13: the analysis returns from every pair of accumulated maps, and the
\* step leaves coverage_map and regular_map with the keys and the sets they
\* had: no lookup inserts a key, and the providers sets are built without
\* writing to a set of coverage_map.
C13_AnalysisLeavesInputs ==
    [][/\ (pc = "pbr" /\ i > Len(enabled_mods)) => pc' = "done"
       /\ pc' = "done" =>
            /\ pbr_covered_textures' = pbr_covered_textures
            /\ regular_textures' = regular_textures
            /\ \A m \in DOMAIN coverage_providers' :
                   \E id \in DOMAIN pbr_covered_textures :
                       pbr_covered_textures[id] \subseteq coverage_providers'[m]]_vars

\* the analysis has looked up the fallback path of a numbered identity that
\* has no entry, and has built the providers set of a mod from an entry
C13_Witness ==
    /\ pc = "done"
    /\ \E id \in Keys(regular_textures) :
           IsNumbered(id) /\ Unmatched(id)
    /\ \E m \in DOMAIN coverage_providers :
           \E id \in CoveredOf(m) :
               /\ id \in DOMAIN pbr_covered_textures
               /\ coverage_providers[m] = pbr_covered_textures[id]

\* C14: no step removes a key or a mod name: every (identity, mod) pair of
\* coverage_map and of regular_map before a step is there after it.
C14_MapsOnlyGrow ==
    [][/\ \A id \in DOMAIN pbr_covered_textures :
              /\ id \in DOMAIN pbr_covered_textures'
              /\ pbr_covered_textures[id] \subseteq pbr_covered_textures'[id]
       /\ \A k \in 1..Len(regular_textures) :
              \E j \in 1..Len(regular_textures') :
                  /\ regular_textures'[j][1] = regular_textures[k][1]
                  /\ regular_textures[k][2] \subseteq regular_textures'[j][2]]_vars

\* the scans of a second mod have added to the maps the first mod filled:
\* an identity has both as providers, and both own identities
C14_Witness ==
    /\ pc = "pbr"
    /\ i = 3
    /\ enabled_mods[1] # enabled_mods[2]
    /\ \E id \in DOMAIN pbr_covered_textures :
           {enabled_mods[1], enabled_mods[2]} \subseteq pbr_covered_textures[id]
    /\ Owned(enabled_mods[1]) # {}
    /\ Owned(enabled_mods[2]) # {}

\* the calls of the two scans for the first n enabled mods
ExpectedCalls(n) ==
    [k \in 1..(2 * n) |->
        IF k % 2 = 1 THEN <<"scan_pbr_coverage", (k + 1) \div 2>>
        ELSE <<"scan_regular_textures", k \div 2>>]

\* the two maps after the scans of the first k enabled mods, from empty maps
RECURSIVE Accumulated(_)
Accumulated(k) ==
    IF k = 0 THEN [pbr |-> <<>>, regular |-> <<>>]
    ELSE LET before == Accumulated(k - 1)
             m == enabled_mods[k]
         IN  [pbr |-> scan_pbr_coverage(m, mod_folders[m], before.pbr, <<>>)
                          .pbr_covered_textures,
              regular |-> scan_regular_textures(m, mod_folders[m], before.regular, <<>>)
                          .regular_textures]

\* C16: a run calls the PBR scan and the regular scan once for each enabled
\* mod, in list order, and the analysis once, after them; the analysis
\* reads the maps all those scans accumulated from empty maps.
C16_ScansOnceThenAnalysis ==
    /\ pc \in {"pbr", "regular"} =>
           calls = SubSeq(ExpectedCalls(Len(enabled_mods)), 1, Len(calls))
    /\ pc = "done" =>
           /\ calls = ExpectedCalls(Len(enabled_mods))
                          \o << <<"find_coverage_analysis", 0>> >>
           /\ pbr_covered_textures = Accumulated(Len(enabled_mods)).pbr
           /\ regular_textures = Accumulated(Len(enabled_mods)).regular
           /\ LET r == find_coverage_analysis(Accumulated(Len(enabled_mods)).pbr,
                                              Accumulated(Len(enabled_mods)).regular)
              IN  /\ covered_mods = r.covered_mods
                  /\ uncovered_mods = r.uncovered_mods
                  /\ coverage_providers = r.coverage_providers

\* a run over two mods has ended with entries of both in the maps
C16_Witness ==
    /\ pc = "done"
    /\ Len(enabled_mods) = 2
    /\ enabled_mods[1] # enabled_mods[2]
    /\ Len(calls) = 5
    /\ \E id \in DOMAIN pbr_covered_textures :
           enabled_mods[1] \in pbr_covered_textures[id]
    /\ Owned(enabled_mods[2]) # {}
    /\ DOMAIN covered_mods # {}

\* the normalized lower-cased relative path of a file on disk
NormalizedLower(dds_file) == lower(normalize_path(replace(dds_file, "\\", "/")))

\* the stem of the normalized lower-cased path ends with a variant suffix
IsVariantMap(dds_file) ==
    \E k \in 1..Len(variant_suffixes) :
        endswith(PathStem(NormalizedLower(dds_file)), variant_suffixes[k])

\* C17: a variant-map file adds nothing to regular_map, whatever the case of
\* its name on disk: every owner recorded for an identity has a file with
\* that identity that is no variant map.
C17_VariantMapsNeverRecorded ==
    \A k \in 1..Len(regular_textures) : \A m \in regular_textures[k][2] :
        \E j \in 1..Len(mod_folders[m].dds) :
            /\ ~IsVariantMap(mod_folders[m].dds[j])
            /\ lower(get_base_texture_name(NormalizedLower(mod_folders[m].dds[j])))
                   = regular_textures[k][1]

\* the context of the k-th json file of mod m
ContextOf(m, k) ==
    file_context(mod_folders[m].jsons[k], m, mod_folders[m],
                 PathParent(mod_folders[m].jsons[k].path))

\* the merged entries of the k-th json file of mod m, a file that is
\* processed without error
MergedEntries(m, k) ==
    LET entries == iterate(file_entries(mod_folders[m].jsons[k].data))
    IN  [n \in 1..Len(entries) |->
            merge(ContextOf(m, k).defaults.items, entries[n].items)]

\* the identity of a slot value: the lower-cased base name of the value
\* without a leading textures/ or textures\
SlotIdentity(value) ==
    lower(get_base_texture_name(
        normalize_path(strip_textures_prefix(value, lower(value)))))

\* the identity of the texture / match_diffuse reference of a merged entry,
\* "" when the entry has none
ReferenceIdentity(merged, f) ==
    LET given == IF "match_diffuse" \in Keys(merged) THEN Get(merged, "match_diffuse")
                 ELSE IF "texture" \in Keys(merged) THEN Get(merged, "texture")
                 ELSE JNull
        name == normalize_path(given.s)
    IN  IF ~truthy(given) THEN ""
        ELSE lower(get_base_texture_name(normalize_path(
                 locate_reference(f, name, pbr_folder_matches(f.folder, name)))))

\* the key is slot followed by digits and its value a non-empty string
IsSlot(kv) ==
    /\ startswith(kv[1], "slot")
    /\ isdigit(SubSeq(kv[1], 5, Len(kv[1])))
    /\ kv[2].type = "str"
    /\ kv[2].s # ""

\* C18: every slot<digits> key of a merged entry with a non-empty value
\* adds the mod under the identity of that value, unless that identity is
\* the one of the entry's texture / match_diffuse reference.
C18_SlotReferences ==
    \A m \in ScannedPbr : \A k \in 1..Len(mod_folders[m].jsons) :
        (mod_folders[m].jsons[k].valid /\ ~FileRaises(m, k)) =>
            \A n \in 1..Len(MergedEntries(m, k)) :
                \A j \in 1..Len(MergedEntries(m, k)[n]) :
                    LET kv == MergedEntries(m, k)[n][j]
                    IN  (/\ IsSlot(kv)
                         /\ SlotIdentity(kv[2].s)
                                # ReferenceIdentity(MergedEntries(m, k)[n], ContextOf(m, k)))
                        => /\ SlotIdentity(kv[2].s) \in DOMAIN pbr_covered_textures
                           /\ m \in pbr_covered_textures[SlotIdentity(kv[2].s)]

\* C19: no key of coverage_map has a directory part that contains a pattern
\* of the exclusion list, whatever the case.
C19_NoExcludedDirectoryKeys ==
    \A id \in DOMAIN pbr_covered_textures : ~is_excluded_dir(lower(PathParent(id)))

\* C20: a json file whose processing raises contributes nothing: every
\* provider recorded for an identity has a file, processed without error,
\* that adds the identity.
C20_FailedFileContributesNothing ==
    \A id \in DOMAIN pbr_covered_textures : \A m \in pbr_covered_textures[id] :
        \E k \in 1..Len(mod_folders[m].jsons) :
            /\ ~FileRaises(m, k)
            /\ id \in AddsOf(m, OnlyFile(mod_folders[m], k))

\* the entries of a parsed sidecar file: the array itself, the entries
\* array of an object, or the object as its only entry
EntriesOf(data) ==
    IF data.type = "list" THEN data.items
    ELSE IF "entries" \in Keys(data.items) THEN Get(data.items, "entries").items
    ELSE <<data>>

\* the default object of a parsed sidecar file, as items
DefaultsOf(data) ==
    IF data.type = "dict" /\ "default" \in Keys(data.items)
    THEN Get(data.items, "default").items ELSE <<>>

\* the key-wise merge of defaults and entry in which the entry wins
ExpectedMerged(defaults, entry) ==
    [key \in Keys(defaults) \cup Keys(entry) |->
        IF key \in Keys(entry) THEN Get(entry, key) ELSE Get(defaults, key)]

\* the reference of a merged entry: match_diffuse when present, else texture
ExpectedGiven(merged) ==
    IF "match_diffuse" \in DOMAIN merged THEN merged["match_diffuse"]
    ELSE IF "texture" \in DOMAIN merged THEN merged["texture"]
    ELSE JNull

\* the full normalized path of a reference of a file with context f
ExpectedPath(f, given) ==
    normalize_path(locate_reference(f, normalize_path(given.s),
                       pbr_folder_matches(f.folder, normalize_path(given.s))))

\* the references taken from the k-th json file of mod m, one
\* <<path, identity>> per entry with an ASCII reference, in entry order
ExpectedReferences(m, k) ==
    LET data == mod_folders[m].jsons[k].data
        f == ContextOf(m, k)
        given(n) == ExpectedGiven(ExpectedMerged(DefaultsOf(data), EntriesOf(data)[n].items))
        refs == [n \in 1..Len(EntriesOf(data)) |->
                    IF truthy(given(n)) /\ is_ascii(ExpectedPath(f, given(n)))
                    THEN <<ExpectedPath(f, given(n)),
                           lower(get_base_texture_name(ExpectedPath(f, given(n))))>>
                    ELSE <<>>]
        Taken(r) == r # <<>>
    IN  SelectSeq(refs, Taken)

\* the references the scan of the k-th json file of mod m alone logs as
\* added, for a file with at most five additions
LoggedReferences(m, k) ==
    LET debug == scan_pbr_coverage(m, OnlyFile(mod_folders[m], k), <<>>, <<>>).debug_info
        IsReference(line) == line[1] = "PBR Coverage"
        lines == SelectSeq(debug, IsReference)
    IN  [n \in 1..Len(lines) |-> <<lines[n][3], lines[n][4]>>]

\* the k-th json file of mod m is processed without error and lies in no
\* excluded directory
Processed(m, k) ==
    /\ mod_folders[m].jsons[k].valid
    /\ ~FileRaises(m, k)
    /\ ~ContextOf(m, k).is_excluded

\* C21: every entry is processed as the merge of the default object and the
\* entry in which the entry wins; its reference is match_diffuse of the
\* merged entry when that key is present and texture only otherwise; an
\* object without entries key is one entry.
C21_DefaultsAndPreference ==
    \A m \in ScannedPbr : \A k \in 1..Len(mod_folders[m].jsons) :
        Processed(m, k) =>
            /\ LoggedReferences(m, k) = ExpectedReferences(m, k)
            /\ \A n \in 1..Len(ExpectedReferences(m, k)) :
                   /\ ExpectedReferences(m, k)[n][2] \in DOMAIN pbr_covered_textures
                   /\ m \in pbr_covered_textures[ExpectedReferences(m, k)[n][2]]

\* a scanned file in object form has an entry with match_diffuse next to a
\* texture of the defaults, an entry that takes everything from the
\* defaults, and an entry whose texture replaces the one of the defaults
C21_Witness ==
    \E m \in ScannedPbr : \E k \in 1..Len(mod_folders[m].jsons) :
        LET data == mod_folders[m].jsons[k].data
        IN  /\ Processed(m, k)
            /\ data.type = "dict"
            /\ "texture" \in Keys(DefaultsOf(data))
            /\ \E n \in 1..Len(EntriesOf(data)) :
                   /\ "match_diffuse" \in Keys(EntriesOf(data)[n].items)
                   /\ "texture" \notin Keys(EntriesOf(data)[n].items)
            /\ \E n \in 1..Len(EntriesOf(data)) : EntriesOf(data)[n].items = <<>>
            /\ \E n \in 1..Len(EntriesOf(data)) :
                   /\ "texture" \in Keys(EntriesOf(data)[n].items)
                   /\ Get(EntriesOf(data)[n].items, "texture")
                          # Get(DefaultsOf(data), "texture")
            /\ Len(LoggedReferences(m, k)) = 3

\* a reference without the extension it may be written with
WithoutExtension(name) ==
    IF endswith(lower(name), ".dds") THEN SubSeq(name, 1, Len(name) - 4) ELSE name

\* C22: a reference adds the same identity whether it is written as name or
\* as name.dds, and that identity ends in one .dds only.
C22_ExtensionOptional ==
    \A m \in ScannedPbr : \A k \in 1..Len(mod_folders[m].jsons) :
        Processed(m, k) =>
            \A n \in 1..Len(EntriesOf(mod_folders[m].jsons[k].data)) :
                LET data == mod_folders[m].jsons[k].data
                    given == ExpectedGiven(ExpectedMerged(DefaultsOf(data),
                                                          EntriesOf(data)[n].items))
                    path == ExpectedPath(ContextOf(m, k), JStr(WithoutExtension(given.s)))
                    identity == lower(get_base_texture_name(path))
                IN  (truthy(given) /\ is_ascii(path)) =>
                        /\ identity \in DOMAIN pbr_covered_textures
                        /\ m \in pbr_covered_textures[identity]
                        /\ identity \o ".dds" \notin DOMAIN pbr_covered_textures

\* C23: showing and exporting the results leaves covered, uncovered and
\* providers with the keys and values the analysis returned.
C23_ResultsReadOnly ==
    [][(pc = "done" \/ pc = "shown") =>
           /\ covered_mods' = covered_mods
           /\ uncovered_mods' = uncovered_mods
           /\ coverage_providers' = coverage_providers]_vars

\* a map key in the form of an identity: lower-case, '/' as only separator,
\* no empty segment, ending in .dds
WellFormedKey(id) ==
    /\ lower(id) = id
    /\ ~contains(id, "\\")
    /\ "" \notin ToSet(split(id, "/"))
    /\ endswith(id, ".dds")

\* C24: every key of coverage_map and of regular_map is lower-case, uses
\* only '/' with no empty segment and ends in .dds, and a reference adds the
\* key its lower-cased spelling adds.
C24_ConsistentCasing ==
    /\ \A id \in DOMAIN pbr_covered_textures \cup DOMAIN RegularMap : WellFormedKey(id)
    /\ \A m \in ScannedPbr : \A k \in 1..Len(mod_folders[m].jsons) :
           Processed(m, k) =>
               \A n \in 1..Len(EntriesOf(mod_folders[m].jsons[k].data)) :
                   LET data == mod_folders[m].jsons[k].data
                       given == ExpectedGiven(ExpectedMerged(DefaultsOf(data),
                                                             EntriesOf(data)[n].items))
                       path == ExpectedPath(ContextOf(m, k), given)
                       identity == lower(get_base_texture_name(lower(path)))
                   IN  (truthy(given) /\ is_ascii(path)) =>
                           /\ identity \in DOMAIN pbr_covered_textures
                           /\ m \in pbr_covered_textures[identity]

\* the mods whose regular scan has returned in this run
ScannedRegular == {enabled_mods[k] : k \in RegularScans}

\* C25: every key of regular_map is ASCII-only, has no pbr directory
\* segment, neither leading nor inner, and contains no exclusion pattern
\* anywhere, file name included.
C25_RegularKeysClean ==
    \A id \in DOMAIN RegularMap :
        /\ is_ascii(id)
        /\ ~startswith(id, "pbr/")
        /\ ~contains(id, "/pbr/")
        /\ \A k \in 1..Len(excluded_patterns) : ~contains(id, excluded_patterns[k])

\* a scanned mod owns an identity and has a file with a non-ASCII name, a
\* file below PBR, a file in an excluded directory and a file whose name
\* holds an exclusion pattern
C25_Witness ==
    \E m \in ScannedRegular :
        LET paths == {NormalizedLower(mod_folders[m].dds[j]) :
                          j \in 1..Len(mod_folders[m].dds)}
        IN  /\ Owned(m) # {}
            /\ \E p \in paths : ~is_ascii(p)
            /\ \E p \in paths : startswith(p, "pbr/")
            /\ \E p \in paths : is_excluded_dir(PathParent(p))
            /\ \E p \in paths :
                   /\ ~is_excluded_dir(PathParent(p))
                   /\ \E k \in 1..Len(excluded_patterns) :
                          contains(PathName(p), excluded_patterns[k])

\* no entry of the list occurs twice
NoRepeat(list) == Cardinality(ToSet(list)) = Len(list)

\* C26: for every mod the covered and the uncovered identities are
\* disjoint, none is listed twice, and together they are the identities the
\* mod owns in regular_map; a mod that owns nothing is a key of no result.
C26_Partition ==
    pc = "done" =>
        /\ \A m \in Mods :
               /\ CoveredOf(m) \cap UncoveredOf(m) = {}
               /\ CoveredOf(m) \cup UncoveredOf(m) = Owned(m)
               /\ m \in DOMAIN covered_mods => NoRepeat(covered_mods[m])
               /\ m \in DOMAIN uncovered_mods => NoRepeat(uncovered_mods[m])
        /\ \A m \in DOMAIN covered_mods \cup DOMAIN uncovered_mods
                        \cup DOMAIN coverage_providers : Owned(m) # {}

\* a mod has covered and uncovered identities, two of a kind, and an
\* enabled mod owns nothing
C26_Witness ==
    /\ pc = "done"
    /\ \E m \in Mods :
           /\ Cardinality(CoveredOf(m)) >= 2
           /\ Cardinality(UncoveredOf(m)) >= 2
    /\ \E k \in 1..Len(enabled_mods) : Owned(enabled_mods[k]) = {}

\* the coverage_map set that matches an identity: the direct entry, else
\* the entry of the numbered-variant fallback, else nothing
MatchedSet(id) ==
    IF id \in DOMAIN pbr_covered_textures THEN pbr_covered_textures[id]
    ELSE IF HasFallback(id) THEN pbr_covered_textures[Unnumbered(id)]
    ELSE {}

\* C27: providers[m] is the union of the matched coverage_map sets of the
\* identities of covered[m]; it is non-empty exactly when covered[m] is,
\* and a mod with only uncovered identities is no key of providers.
C27_ProvidersAreUnion ==
    pc = "done" =>
        \A m \in Mods :
            /\ ProvidersOf(m) = UNION {MatchedSet(id) : id \in CoveredOf(m)}
            /\ ProvidersOf(m) # {} <=> CoveredOf(m) # {}
            /\ CoveredOf(m) = {} => m \notin DOMAIN coverage_providers

\* a mod is covered directly and through a fallback entry by different
\* providers, and a mod has uncovered identities only
C27_Witness ==
    /\ pc = "done"
    /\ \E m \in Mods : \E x, y \in CoveredOf(m) :
           /\ x \in DOMAIN pbr_covered_textures
           /\ y \notin DOMAIN pbr_covered_textures
           /\ MatchedSet(x) # MatchedSet(y)
           /\ ProvidersOf(m) = MatchedSet(x) \cup MatchedSet(y)
    /\ \E m \in Mods : CoveredOf(m) = {} /\ UncoveredOf(m) # {}

\* the identities a regular scan of mod m alone adds
RegularAdds(m) ==
    Keys(scan_regular_textures(m, mod_folders[m], <<>>, <<>>).regular_textures)

\* the map holds, for every identity some mod of adds adds, the mods that
\* add it, and nothing else
IsUnionOf(map, adds) ==
    /\ DOMAIN map = UNION {adds[m] : m \in DOMAIN adds}
    /\ \A id \in DOMAIN map : map[id] = {m \in DOMAIN adds : id \in adds[m]}

\* C28: the scans merge as set unions: both maps hold what the scans of the
\* enabled mods add one by one, whatever the order of the scans and however
\* often a mod is scanned.
C28_ScansCommute ==
    pc = "done" =>
        /\ IsUnionOf(pbr_covered_textures, [m \in ToSet(enabled_mods) |-> Adds(m)])
        /\ IsUnionOf(RegularMap, [m \in ToSet(enabled_mods) |-> RegularAdds(m)])

\* two different mods were scanned that provide a common identity and own a
\* common identity
C28_Witness ==
    /\ pc = "done"
    /\ \E id \in DOMAIN pbr_covered_textures : Cardinality(pbr_covered_textures[id]) >= 2
    /\ \E id \in DOMAIN RegularMap : Cardinality(RegularMap[id]) >= 2

\* the suffixes of the table of TextureUtils that the table of
\* PBRCoverageChecker lacks
custom_suffixes == << "_normalmap", "_envmap", "_spec", "_emit", "_nm" >>

EndsCustom(stem) ==
    \E k \in 1..Len(custom_suffixes) : endswith(stem, custom_suffixes[k])

\* the string values of the reference keys of the items of one object
ReferenceItems(items) ==
    {items[j] : j \in {j \in 1..Len(items) :
                         /\ items[j][2].type = "str"
                         /\ items[j][2].s # ""
                         /\ \/ items[j][1] \in {"texture", "match_diffuse"}
                            \/ /\ startswith(items[j][1], "slot")
                               /\ isdigit(SubSeq(items[j][1], 5, Len(items[j][1])))}}

\* the stem that reaches the base-name function for a reference of the
\* k-th json file of mod m: of the full path of a texture / match_diffuse
\* reference, of the value of a slot
ReferenceStem(m, k, kv) ==
    IF kv[1] \in {"texture", "match_diffuse"}
    THEN PathStem(ExpectedPath(ContextOf(m, k), kv[2]))
    ELSE PathStem(normalize_path(strip_textures_prefix(kv[2].s, lower(kv[2].s))))

\* the reference stems of the json files of mod m
ReferenceStems(m) ==
    UNION {LET data == mod_folders[m].jsons[k].data
               objects == {DefaultsOf(data)} \cup
                          {EntriesOf(data)[n].items :
                               n \in {n \in 1..Len(EntriesOf(data)) :
                                          EntriesOf(data)[n].type = "dict"}}
           IN  {ReferenceStem(m, k, kv) : kv \in UNION {ReferenceItems(o) : o \in objects}}
           : k \in {k \in 1..Len(mod_folders[m].jsons) : mod_folders[m].jsons[k].valid}}

\* the stems of the texture files of mod m as they are on disk, and of
\* their normalized lower-cased paths
FileStems(m) ==
    {PathStem(normalize_path(replace(mod_folders[m].dds[j], "\\", "/"))) :
         j \in 1..Len(mod_folders[m].dds)}

LoweredFileStems(m) ==
    {PathStem(NormalizedLower(mod_folders[m].dds[j])) : j \in 1..Len(mod_folders[m].dds)}

\* the maps after the scans of PBRCoverageChecker over the mods of order
RECURSIVE CheckerScans(_, _, _)
CheckerScans(order, k, maps) ==
    IF k > Len(order) THEN maps
    ELSE CheckerScans(order, k + 1,
             [pbr |-> _scan_pbr_coverage(order[k], mod_folders[order[k]],
                                         maps.pbr, <<>>).pbr_covered_textures,
              regular |-> _scan_regular_textures(order[k], mod_folders[order[k]],
                                                 maps.regular, <<>>).regular_textures])

\* the maps and the analysis of PBRCoverageChecker are those of the run
SameAnalysis(res) ==
    /\ res.covered_mods = covered_mods
    /\ res.uncovered_mods = uncovered_mods
    /\ res.coverage_providers = coverage_providers

SameResults(maps) ==
    /\ maps.pbr = pbr_covered_textures
    /\ maps.regular = regular_textures
    /\ SameAnalysis(_find_coverage_analysis(maps.pbr, maps.regular))

\* C29 as stated: when no file stem and no reference stem ends with one of
\* the five suffixes, PBRCoverageChecker's own methods compute the maps and
\* the analysis of the factored pipeline.
C29_SameResults ==
    pc = "done" =>
        ((\A k \in 1..Len(enabled_mods) :
              \A stem \in FileStems(enabled_mods[k]) \cup ReferenceStems(enabled_mods[k]) :
                  ~EndsCustom(stem))
         => SameResults(CheckerScans(enabled_mods, 1, [pbr |-> <<>>, regular |-> <<>>])))

\* C29 amended: the same with the file stems taken from the normalized
\* lower-cased paths, as the regular scan hands them to the base-name
\* function.
C29_SameResultsLowered ==
    pc = "done" =>
        ((\A k \in 1..Len(enabled_mods) :
              \A stem \in LoweredFileStems(enabled_mods[k])
                              \cup ReferenceStems(enabled_mods[k]) :
                  ~EndsCustom(stem))
         => SameResults(CheckerScans(enabled_mods, 1, [pbr |-> <<>>, regular |-> <<>>])))

\* no stem ends with one of the five suffixes, both scans stripped a suffix
\* of the common part of the tables, and a mod is covered
C29_Witness ==
    /\ pc = "done"
    /\ \A k \in 1..Len(enabled_mods) :
           \A stem \in LoweredFileStems(enabled_mods[k]) \cup ReferenceStems(enabled_mods[k]) :
               ~EndsCustom(stem)
    /\ \E k \in 1..Len(enabled_mods) :
           /\ \E stem \in LoweredFileStems(enabled_mods[k]) : endswith(stem, "_d")
           /\ \E stem \in ReferenceStems(enabled_mods[k]) : endswith(stem, "_d")
    /\ DOMAIN covered_mods # {}
    /\ DOMAIN uncovered_mods # {}

(***************************************************************************)
(* More properties of TextureUtils (checked under SpecUtils)               *)
(***************************************************************************)

\* C15: get_base_texture_name removes the first entry of the table, in table
\* order, that the stem ends with, and nothing more; a stem that ends with
\* no entry is kept; the result ends in .dds whatever the input's extension.
C15_OneSuffixStripped ==
    (op = "get_base_texture_name" /\ Len(result) >= 1) =>
        LET normalized == normalize_path(texture_path)
            stem == PathStem(normalized)
            directory == PathParent(normalized)
            first == IF MatchingSuffixes = {} THEN 0
                     ELSE CHOOSE k \in MatchingSuffixes :
                              \A j \in MatchingSuffixes : k <= j
            base_stem == IF first = 0 THEN stem
                         ELSE SubSeq(stem, 1, Len(stem) - Len(pbr_suffixes[first]))
        IN  /\ result[1] = (IF directory = "." THEN base_stem \o ".dds"
                            ELSE directory \o "/" \o base_stem \o ".dds")
            /\ endswith(result[1], ".dds")
            /\ Len(result[1]) >= Len(base_stem) + 4

\* a stem with two stacked suffixes lost the last one only
C15_Witness ==
    /\ op = "get_base_texture_name"
    /\ Len(result) >= 1
    /\ texture_path = "armor/steel/cuirass_n_m.dds"
    /\ result[1] = "armor/steel/cuirass_n.dds"

(***************************************************************************)
(* Properties of the copy worker (checked under SpecCopy)                  *)
(***************************************************************************)

\* the positions of emitted that hold a terminal signal, and a progress
\* signal
Terminals == {k \in 1..Len(emitted) : emitted[k][1] \in {"copy_completed", "error_occurred"}}
Progress == {k \in 1..Len(emitted) : emitted[k][1] = "progress_updated"}

\* what holds of the signals and the results at every moment of a run
CopySignals ==
    /\ Cardinality(Terminals) <= 1
    /\ \A k \in Terminals : k = Len(emitted)
    /\ pc = "returned" => Cardinality(Terminals) = 1
    /\ \A j, k \in Progress : j < k => emitted[j][2] <= emitted[k][2]
    /\ \A k \in Terminals :
           emitted[k][1] = "copy_completed" =>
               /\ k > 1
               /\ emitted[k - 1][1] = "progress_updated"
               /\ emitted[k - 1][2] = 100
               /\ \A n \in 1..Len(mod_downloads) :
                      \E j \in Progress : emitted[j][3] = mod_downloads[n][1]
    /\ \A n \in raised : \E f \in 1..Len(results.failed) :
           results.failed[f][1] = mod_downloads[n][1]
    /\ \A k \in Terminals : emitted[k][1] = "error_occurred" => raised = {} /\ Progress = {}

\* C30: every run ends with exactly one terminal signal, emitted after all
\* progress signals; a download whose copying raises is recorded in failed,
\* the remaining downloads are processed and the run ends with
\* copy_completed; progress never decreases and 100 precedes copy_completed.
C30_OneTerminalSignal == [] CopySignals /\ <>(pc = "returned")

\* the copying of the first of two downloads raised and the run ended with
\* copy_completed
C30_Witness ==
    /\ pc = "returned"
    /\ Len(mod_downloads) >= 2
    /\ 1 \in raised
    /\ Len(results.failed) = 1
    /\ Len(results.copied) >= 1
    /\ emitted[Len(emitted)][1] = "copy_completed"

====
